---- MODULE Spec2Model ----
(***************************************************************************)
(* Model of the glTF repair scripts of HigurashiDaybreakModelConversion:   *)
(*   pythonScripts/oldScripts/fix_gltf_bone_order.py  (GLTFBoneFixer)      *)
(*   pythonScripts/fix_daybreak_gltf.py               (DaybreakGLTFFixer)  *)
(*   pythonScripts/oldScripts/fix_gltf_animation_timing.py                 *)
(*                                                    (GLTFAnimationFixer) *)
(*   pythonScripts/convert_daybreak_x_to_gltf.py      (main)               *)
(* Python lists are TLA+ sequences; Python indices are kept 0-based and    *)
(* read through At.  A node without a 'children' key and a node with an    *)
(* empty children list are treated alike by every function modelled here,  *)
(* so both are the empty sequence.  Node indices are non-negative.         *)
(***************************************************************************)
EXTENDS Integers, Sequences, FiniteSets, TLC

\* gltf_data, reordered: the fields of GLTFBoneFixer.  warned: the warnings
\* logged so far.  dfs: the locals and the call stack of one depth-first
\* traversal, when the traversal is followed step by step.
\* gltf_json, bin_data, fixes_applied, issues_found: the document, the buffer
\* and the report lists of DaybreakGLTFFixer; gltf_json, bin_data,
\* bin_data_modified, fixed_count: the fields of GLTFAnimationFixer.
\* raised: the exception that left the last method.  last, prev: the last two
\* methods run.  pre: the fields before the last one.
\* files: the file system, a function from paths to contents.  gltf_path,
\* output_path: the arguments of the run.  bin_path: the buffer file that
\* load has looked for.  program: the script that runs.  loading: the locals
\* of load_gltf, when its loop over the encodings is followed attempt by
\* attempt.
VARIABLES gltf_data, reordered, warned, dfs,
          gltf_json, bin_data, fixes_applied, issues_found,
          bin_data_modified, fixed_count,
          raised, last, prev, pre,
          files, gltf_path, output_path, bin_path, program, loading

bone_vars == <<gltf_data, reordered, warned, dfs>>

accessor_vars ==
    <<gltf_json, bin_data, fixes_applied, issues_found, bin_data_modified,
      fixed_count>>

file_vars == <<files, gltf_path, output_path, bin_path, program, loading>>

vars == <<bone_vars, accessor_vars, raised, last, prev, pre, file_vars>>

fixer_vars ==
    <<gltf_data, reordered, warned, accessor_vars, raised, last, prev, pre,
      file_vars>>

\* a path is [parent, stem, suffix]; NoPath stands for None
NoPath == [parent |-> "", stem |-> "", suffix |-> ""]

\* load_gltf is not followed attempt by attempt
LoadingIdle == [pc |-> "idle", tried |-> <<>>]

\* no file is looked at, and the fixers are run each by itself
FilesIdle ==
    /\ files = <<>>
    /\ gltf_path = NoPath
    /\ output_path = NoPath
    /\ bin_path = NoPath
    /\ program = "either"
    /\ loading = LoadingIdle

\* the accessor fixers have loaded nothing
AccessorFixersIdle ==
    /\ gltf_json = [accessors |-> <<>>, bufferViews |-> <<>>, animations |-> <<>>]
    /\ bin_data = <<>>
    /\ fixes_applied = <<>>
    /\ issues_found = <<>>
    /\ bin_data_modified = FALSE
    /\ fixed_count = 0
    /\ FilesIdle

Snapshot == [data |-> gltf_data, reordered |-> reordered, warned |-> warned]

\* ------------------------------------------------------------------ bounds
\* Largest number of nodes of a document (the edge budget follows it).
MaxNodes == 3

\* Cap on the depth of the call stack of a traversal (Python's own cap is the
\* recursion limit); a traversal that stays within it never meets it.
MaxDepth == 6

\* Largest number of 4-byte words of a buffer, and of elements of an accessor.
MaxWords == 3

MaxCount == 2

\* ------------------------------------------------------------------ lists
\* An absent optional reference ('skeleton', channel target 'node').
NoRef == 0 - 1

At(s, i) == s[i + 1]

Elems(s) == {s[k] : k \in 1..Len(s)}

SeqsUpTo(S, k) == UNION {[1..m -> S] : m \in 0..k}

SetMax(S) == CHOOSE x \in S : \A y \in S : y <= x

SetMin(S) == CHOOSE x \in S : \A y \in S : x <= y

\* s.index(x): position (0-based) of the first occurrence of x in s.
FirstIndex(s, x) == SetMin({k \in 1..Len(s) : s[k] = x}) - 1

\* [x for x in s if x in S]
RECURSIVE FilterIn(_, _)
FilterIn(s, S) ==
    IF s = <<>> THEN <<>>
    ELSE IF Head(s) \in S THEN <<Head(s)>> \o FilterIn(Tail(s), S)
    ELSE FilterIn(Tail(s), S)

\* [x for x in s if x not in S]
RECURSIVE FilterOut(_, _)
FilterOut(s, S) ==
    IF s = <<>> THEN <<>>
    ELSE IF Head(s) \notin S THEN <<Head(s)>> \o FilterOut(Tail(s), S)
    ELSE FilterOut(Tail(s), S)

\* [i for i in range(n) if i not in S], ascending
RECURSIVE RangeNotIn(_, _, _)
RangeNotIn(i, n, S) ==
    IF i >= n THEN <<>>
    ELSE IF i \notin S THEN <<i>> \o RangeNotIn(i + 1, n, S)
    ELSE RangeNotIn(i + 1, n, S)

\* ------------------------------------------------- topological_sort_nodes
\* node_children.get(node_idx, []) and joint_children.get(joint_idx, [])
ChildrenGet(children, idx) ==
    IF idx \in DOMAIN children THEN children[idx] ELSE <<>>

\* node_children: node_idx -> its children list
node_children(nodes) == [i \in 0..(Len(nodes) - 1) |-> At(nodes, i).children]

\* the keys of node_parent: every index that is some node's child
node_parent_keys(nodes) ==
    UNION {Elems(At(nodes, i).children) : i \in 0..(Len(nodes) - 1)}

\* mutant of root_nodes: every node is taken for a root
root_nodes_every_node(nodes) == RangeNotIn(0, Len(nodes), {})

root_nodes(nodes) == RangeNotIn(0, Len(nodes), node_parent_keys(nodes))

\* dfs of topological_sort_nodes, st = [sorted, visited]; the loop over the
\* children list is dfs_nodes_loop.
RECURSIVE dfs_nodes(_, _, _), dfs_nodes_loop(_, _, _, _)
dfs_nodes(children, node_idx, st) ==
    IF node_idx \in st.visited THEN st
    ELSE dfs_nodes_loop(children, ChildrenGet(children, node_idx), 1,
             [sorted |-> Append(st.sorted, node_idx),
              visited |-> st.visited \cup {node_idx}])

dfs_nodes_loop(children, list, k, st) ==
    IF k > Len(list) THEN st
    ELSE dfs_nodes_loop(children, list, k + 1, dfs_nodes(children, list[k], st))

\* the nodes the final loop reports and appends: never visited by the dfs
unvisited_nodes(nodes) ==
    LET st == dfs_nodes_loop(node_children(nodes), root_nodes(nodes), 1,
                             [sorted |-> <<>>, visited |-> {}])
    IN  RangeNotIn(0, Len(nodes), st.visited)

Reverse(s) == [k \in 1..Len(s) |-> s[Len(s) + 1 - k]]

\* mutant of sorted_indices_of: the unvisited nodes are appended highest first
sorted_indices_of_unvisited_descending(nodes) ==
    LET st == dfs_nodes_loop(node_children(nodes), root_nodes(nodes), 1,
                             [sorted |-> <<>>, visited |-> {}])
    IN  st.sorted \o Reverse(RangeNotIn(0, Len(nodes), st.visited))

\* mutant of sorted_indices_of: the unvisited nodes are put first
sorted_indices_of_unvisited_first(nodes) ==
    LET st == dfs_nodes_loop(node_children(nodes), root_nodes(nodes), 1,
                             [sorted |-> <<>>, visited |-> {}])
    IN  RangeNotIn(0, Len(nodes), st.visited) \o st.sorted

\* sorted_indices of topological_sort_nodes
sorted_indices_of(nodes) ==
    LET st == dfs_nodes_loop(node_children(nodes), root_nodes(nodes), 1,
                             [sorted |-> <<>>, visited |-> {}])
    IN  st.sorted \o RangeNotIn(0, Len(nodes), st.visited)

\* index_mapping: old index -> new index (a later assignment wins)
index_mapping_of(sorted) ==
    [old \in Elems(sorted) |->
        SetMax({k \in 1..Len(sorted) : sorted[k] = old}) - 1]

topological_sort_nodes(nodes) ==
    LET s == sorted_indices_of(nodes)
    IN  [sorted_indices |-> s, index_mapping |-> index_mapping_of(s)]

\* ------------------------------------------------------ fix_node_hierarchy
\* mutant of lower_index_children: child_idx <= i
lower_index_children_or_equal(nodes) ==
    UNION {{<<i, k>> : k \in {q \in 1..Len(At(nodes, i).children) :
                                    At(nodes, i).children[q] <= i}} :
           i \in 0..(Len(nodes) - 1)}

\* the test of the check loop: (node i, position k in its children) with
\* child_idx < i
lower_index_children(nodes) ==
    UNION {{<<i, k>> : k \in {q \in 1..Len(At(nodes, i).children) :
                                    At(nodes, i).children[q] < i}} :
           i \in 0..(Len(nodes) - 1)}

\* the check loop: some node has a child with a lower index than its own
needs_reorder_nodes(nodes) == lower_index_children(nodes) # {}

\* the edge the check loop warns about before it breaks: the first node, and
\* its first child, with child index < node index
first_lower_edge(nodes) ==
    LET L == lower_index_children(nodes)
        i == SetMin({e[1] : e \in L})
        k == SetMin({e[2] : e \in {f \in L : f[1] = i}})
    IN  [kind |-> "lower_index", node |-> i, child |-> At(nodes, i).children[k]]

\* [index_mapping[old_idx] for old_idx in list]; raises KeyError unless Mappable
Remap(list, m) == [k \in 1..Len(list) |-> m[list[k]]]

Mappable(list, m) == \A k \in 1..Len(list) : list[k] \in DOMAIN m

RefMappable(r, m) == r = NoRef \/ r \in DOMAIN m

\* mutant of RemapRef: the single reference is left as it was
RemapRef_not_rewritten(r, m) == r

RemapRef(r, m) == IF r = NoRef THEN NoRef ELSE m[r]

\* the first of the positions B at which a loop raises, 0 when there is none
FirstBad(B) == IF B = {} THEN 0 ELSE SetMin(B)

\* One call of fix_node_hierarchy on document d.  The result names the
\* document it leaves behind (in-place updates made before an exception
\* stay), whether self.reordered was set, the warnings logged and the
\* exception that left the function ("none" when it returned).
fix_node_hierarchy_of(d) ==
    LET nodes == d.nodes
        n == Len(nodes)
        ts == topological_sort_nodes(nodes)
        sorted == ts.sorted_indices
        m == ts.index_mapping
        warnings == {first_lower_edge(nodes)} \cup
            {[kind |-> "not_connected", node |-> At(unvisited_nodes(nodes), q - 1),
              child |-> NoRef] : q \in 1..Len(unvisited_nodes(nodes))}
        new_nodes == [k \in 1..Len(sorted) |-> At(nodes, sorted[k])]
        NodeOk(node) == Mappable(node.children, m)
        RewriteNode(node) == [node EXCEPT !.children = Remap(node.children, m)]
        badN == FirstBad({k \in 1..Len(new_nodes) : ~NodeOk(new_nodes[k])})
        \* the node objects are shared by the old and the new list
        old_list_rewritten(upto) ==
            [i \in 1..n |-> IF m[i - 1] + 1 < upto THEN RewriteNode(nodes[i])
                            ELSE nodes[i]]
        SceneOk(scene) == Mappable(scene, m)
        badS == FirstBad({k \in 1..Len(d.scenes) : ~SceneOk(d.scenes[k])})
        scenes_rewritten(upto) ==
            [k \in 1..Len(d.scenes) |->
                IF k < upto THEN Remap(d.scenes[k], m) ELSE d.scenes[k]]
        SkinOk(skin) == RefMappable(skin.skeleton, m) /\ Mappable(skin.joints, m)
        badK == FirstBad({k \in 1..Len(d.skins) : ~SkinOk(d.skins[k])})
        RewriteSkin(skin) == [skeleton |-> RemapRef(skin.skeleton, m),
                              joints |-> Remap(skin.joints, m)]
        skins_rewritten(upto) ==
            [k \in 1..Len(d.skins) |->
                IF k < upto THEN RewriteSkin(d.skins[k])
                ELSE IF k = upto /\ RefMappable(d.skins[k].skeleton, m)
                     THEN [d.skins[k] EXCEPT !.skeleton = RemapRef(@, m)]
                ELSE d.skins[k]]
        ChanOk(r) == RefMappable(r, m)
        BadChan(anim) == FirstBad({c \in 1..Len(anim) : ~ChanOk(anim[c])})
        badA == FirstBad({k \in 1..Len(d.animations) : BadChan(d.animations[k]) # 0})
        RewriteAnim(anim, upto) ==
            [c \in 1..Len(anim) |-> IF c < upto THEN RemapRef(anim[c], m) ELSE anim[c]]
        anims_rewritten(upto) ==
            [k \in 1..Len(d.animations) |->
                IF k < upto THEN RewriteAnim(d.animations[k], Len(d.animations[k]) + 1)
                ELSE IF k = upto
                     THEN RewriteAnim(d.animations[k], BadChan(d.animations[k]))
                ELSE d.animations[k]]
        all == n + 1
    IN  IF ~needs_reorder_nodes(nodes)
        THEN [data |-> d, set_reordered |-> FALSE, warnings |-> {}, raised |-> "none"]
        ELSE IF \E k \in 1..Len(sorted) : sorted[k] >= n
        THEN [data |-> d, set_reordered |-> FALSE, warnings |-> warnings,
              raised |-> "IndexError"]
        ELSE IF badN # 0
        THEN [data |-> [d EXCEPT !.nodes = old_list_rewritten(badN)],
              set_reordered |-> FALSE, warnings |-> warnings, raised |-> "KeyError"]
        ELSE IF badS # 0
        THEN [data |-> [d EXCEPT !.nodes = old_list_rewritten(all),
                                 !.scenes = scenes_rewritten(badS)],
              set_reordered |-> FALSE, warnings |-> warnings, raised |-> "KeyError"]
        ELSE IF badK # 0
        THEN [data |-> [d EXCEPT !.nodes = old_list_rewritten(all),
                                 !.scenes = scenes_rewritten(Len(d.scenes) + 1),
                                 !.skins = skins_rewritten(badK)],
              set_reordered |-> FALSE, warnings |-> warnings, raised |-> "KeyError"]
        ELSE IF badA # 0
        THEN [data |-> [d EXCEPT !.nodes = old_list_rewritten(all),
                                 !.scenes = scenes_rewritten(Len(d.scenes) + 1),
                                 !.skins = skins_rewritten(Len(d.skins) + 1),
                                 !.animations = anims_rewritten(badA)],
              set_reordered |-> FALSE, warnings |-> warnings, raised |-> "KeyError"]
        ELSE [data |-> [d EXCEPT
                  !.nodes = [k \in 1..Len(new_nodes) |-> RewriteNode(new_nodes[k])],
                  !.scenes = scenes_rewritten(Len(d.scenes) + 1),
                  !.skins = skins_rewritten(Len(d.skins) + 1),
                  !.animations = anims_rewritten(Len(d.animations) + 1)],
              set_reordered |-> TRUE, warnings |-> warnings, raised |-> "none"]

\* An exception leaves fix() and main() exits: no method runs after it.
\* fix() runs the node pass before the bone pass, never after it.
fix_node_hierarchy ==
    /\ raised = "none"
    /\ last # "fix_bone_order"
    /\ LET r == fix_node_hierarchy_of(gltf_data)
       IN  /\ gltf_data' = r.data
           /\ reordered' = (reordered \/ r.set_reordered)
           /\ warned' = warned \cup r.warnings
           /\ raised' = r.raised
    /\ pre' = Snapshot
    /\ prev' = last
    /\ last' = "fix_node_hierarchy"
    /\ UNCHANGED dfs
    /\ UNCHANGED <<accessor_vars, file_vars>>

\* ------------------------------------------------ topological_sort_joints
\* joint_children: joint_idx -> its children that are joints of the skin too
joint_children(joints, all_nodes) ==
    [j \in Elems(joints) |-> FilterIn(At(all_nodes, j).children, Elems(joints))]

\* the keys of joint_parent: every joint that is a child of some joint
joint_parent_keys(joints, all_nodes) ==
    UNION {Elems(joint_children(joints, all_nodes)[j]) : j \in Elems(joints)}

\* mutant of root_joints: every joint is taken for a root
root_joints_every_joint(joints, all_nodes) == joints

root_joints(joints, all_nodes) ==
    FilterOut(joints, joint_parent_keys(joints, all_nodes))

\* dfs of topological_sort_joints, st = [sorted, visited]
RECURSIVE dfs_joints(_, _, _), dfs_joints_loop(_, _, _, _)
dfs_joints(children, joint_idx, st) ==
    IF joint_idx \in st.visited THEN st
    ELSE dfs_joints_loop(children, ChildrenGet(children, joint_idx), 1,
             [sorted |-> Append(st.sorted, joint_idx),
              visited |-> st.visited \cup {joint_idx}])

dfs_joints_loop(children, list, k, st) ==
    IF k > Len(list) THEN st
    ELSE dfs_joints_loop(children, list, k + 1, dfs_joints(children, list[k], st))

\* every joint must index all_nodes (the caller has read all_nodes[joint_idx])
topological_sort_joints(joints, all_nodes) ==
    LET st == dfs_joints_loop(joint_children(joints, all_nodes),
                              root_joints(joints, all_nodes), 1,
                              [sorted |-> <<>>, visited |-> {}])
    IN  st.sorted \o FilterOut(joints, st.visited)

\* ---------------------------------------------------------- fix_bone_order
\* mutant of earlier_children: node indices are compared, not positions
earlier_children_by_node_index(joints, nodes) ==
    {<<i, c>> \in (0..(Len(joints) - 1)) \X Elems(joints) :
        /\ At(joints, i) < Len(nodes)
        /\ c \in Elems(At(nodes, At(joints, i)).children)
        /\ c < At(joints, i)}

\* the pairs (position i, child) the check loop of one skin warns about
earlier_children(joints, nodes) ==
    {<<i, c>> \in (0..(Len(joints) - 1)) \X Elems(joints) :
        /\ At(joints, i) < Len(nodes)
        /\ c \in Elems(At(nodes, At(joints, i)).children)
        /\ FirstIndex(joints, c) < i}

needs_reorder_joints(joints, nodes) == earlier_children(joints, nodes) # {}

\* nodes[joint_idx] raises IndexError
JointsIndexable(joints, nodes) == \A k \in 1..Len(joints) : joints[k] < Len(nodes)

fix_skin(skin, nodes) ==
    IF skin.joints # <<>> /\ needs_reorder_joints(skin.joints, nodes)
    THEN [skin EXCEPT !.joints = topological_sort_joints(skin.joints, nodes)]
    ELSE skin

\* One call of fix_bone_order on document d, reported as fix_node_hierarchy_of.
fix_bone_order_of(d) ==
    LET nodes == d.nodes
        SkinOk(skin) == JointsIndexable(skin.joints, nodes)
        bad == FirstBad({k \in 1..Len(d.skins) : ~SkinOk(d.skins[k])})
        done == IF bad = 0 THEN Len(d.skins) ELSE bad - 1
        \* the check loop of the raising skin stops at its first bad joint
        Checked(k) ==
            IF k = bad
            THEN SubSeq(d.skins[k].joints, 1,
                        SetMin({q \in 1..Len(d.skins[k].joints) :
                                    d.skins[k].joints[q] >= Len(nodes)}) - 1)
            ELSE d.skins[k].joints
        warnings ==
            UNION {{[kind |-> "child_earlier", node |-> At(d.skins[k].joints, p[1]),
                     child |-> p[2]] :
                        p \in {e \in earlier_children(d.skins[k].joints, nodes) :
                                  e[1] < Len(Checked(k))}} :
                   k \in 1..(IF bad = 0 THEN Len(d.skins) ELSE bad)}
    IN  [data |-> [d EXCEPT !.skins =
                      [k \in 1..Len(d.skins) |->
                          IF k <= done THEN fix_skin(d.skins[k], nodes)
                          ELSE d.skins[k]]],
         set_reordered |-> \E k \in 1..done :
                               /\ d.skins[k].joints # <<>>
                               /\ needs_reorder_joints(d.skins[k].joints, nodes),
         warnings |-> warnings,
         raised |-> IF bad = 0 THEN "none" ELSE "IndexError"]

fix_bone_order ==
    /\ raised = "none"
    /\ LET r == fix_bone_order_of(gltf_data)
       IN  /\ gltf_data' = r.data
           /\ reordered' = (reordered \/ r.set_reordered)
           /\ warned' = warned \cup r.warnings
           /\ raised' = r.raised
    /\ pre' = Snapshot
    /\ prev' = last
    /\ last' = "fix_bone_order"
    /\ UNCHANGED dfs
    /\ UNCHANGED <<accessor_vars, file_vars>>

\* ------------------------------------------------------------- documents
\* n children lists with at most e entries in all, entries drawn from S
RECURSIVE ChildrenLists(_, _, _)
ChildrenLists(n, e, S) ==
    IF n = 0 THEN {<<>>}
    ELSE UNION {{<<cl>> \o rest : rest \in ChildrenLists(n - 1, e - Len(cl), S)} :
                   cl \in SeqsUpTo(S, e)}

\* id names the node object: it travels with the node when the list is reordered
MkNodes(cls) == [i \in 1..Len(cls) |-> [id |-> i - 1, children |-> cls[i]]]

NoDup(s) == \A a, b \in 1..Len(s) : a # b => s[a] # s[b]

MkDoc(nodes, scenes, skins, animations) ==
    [nodes |-> nodes, scenes |-> scenes, skins |-> skins, animations |-> animations]

\* joints lists without a repeated entry
NoDupSeqs(S, k) == {j \in SeqsUpTo(S, k) : NoDup(j)}

\* node lists alone, child indices in range or one past the end
InitNodes ==
    \E n \in 0..MaxNodes : \E cls \in ChildrenLists(n, MaxNodes, 0..n) :
        gltf_data = MkDoc(MkNodes(cls), <<>>, <<>>, <<>>)

\* references into the node list: scenes, one skin, or one animation
InitRefs ==
    \E n \in 1..MaxNodes : \E cls \in ChildrenLists(n, MaxNodes - 2, 0..(n - 1)) :
        \/ \E sc \in SeqsUpTo(SeqsUpTo(0..n, 1), 2) :
               gltf_data = MkDoc(MkNodes(cls), sc, <<>>, <<>>)
        \/ \E sk \in {NoRef} \cup 0..n, js \in SeqsUpTo(0..n, 1) :
               gltf_data = MkDoc(MkNodes(cls), <<>>,
                                 <<[skeleton |-> sk, joints |-> js]>>, <<>>)
        \/ \E an \in SeqsUpTo({NoRef} \cup 0..n, 2) :
               gltf_data = MkDoc(MkNodes(cls), <<>>, <<>>, <<an>>)

\* one skin over a node list: duplicate-free joints in range, or any joints
\* (repeated, one past the end) over a node list with at most one edge
InitJoints ==
    \E n \in 1..MaxNodes :
        \/ \E cls \in ChildrenLists(n, MaxNodes - 1, 0..(n - 1)) :
               \E js \in NoDupSeqs(0..(n - 1), n) :
                   gltf_data = MkDoc(MkNodes(cls), <<>>,
                                     <<[skeleton |-> NoRef, joints |-> js]>>, <<>>)
        \/ \E cls \in ChildrenLists(n, 1, 0..(n - 1)) :
               \E js \in SeqsUpTo(0..n, MaxNodes) :
                   gltf_data = MkDoc(MkNodes(cls), <<>>,
                                     <<[skeleton |-> NoRef, joints |-> js]>>, <<>>)

\* GLTFBoneFixer after load_gltf
Loaded ==
    /\ reordered = FALSE
    /\ warned = {}
    /\ raised = "none"
    /\ last = "load_gltf"
    /\ prev = "init"
    /\ pre = Snapshot
    /\ AccessorFixersIdle

\* no traversal is followed step by step
DfsIdle ==
    [pc |-> "idle", children |-> <<>>, roots |-> <<>>, all |-> <<>>, k |-> 1,
     stack |-> <<>>, sorted |-> <<>>, visited |-> {}, expansions |-> <<>>]

Init == (InitNodes \/ InitRefs \/ InitJoints) /\ Loaded /\ dfs = DfsIdle

Next == fix_node_hierarchy \/ fix_bone_order

Spec == Init /\ [][Next]_vars

\* the node-order pass alone, run and run again
InitNodePass == (InitNodes \/ InitRefs) /\ Loaded /\ dfs = DfsIdle

NextNodePass == fix_node_hierarchy

SpecNodes == InitNodePass /\ [][NextNodePass]_vars

\* the joint-order pass alone, run and run again
InitJointPass == InitJoints /\ Loaded /\ dfs = DfsIdle

NextJointPass == fix_bone_order

SpecJoints == InitJointPass /\ [][NextJointPass]_vars

\* --------------------------------------------- the traversals, step by step
\* The locals of topological_sort_nodes / topological_sort_joints when the
\* traversal starts: children is node_children / joint_children, roots is
\* root_nodes / root_joints, all is what the final loop runs over, k is the
\* position of the roots loop.  A frame of stack is one call of dfs: idx its
\* argument, at = 0 before the visited test, else the position of its loop
\* over the children.  expansions lists the calls that passed the test.
dfs_begin(children, roots, all) ==
    [pc |-> "roots", children |-> children, roots |-> roots, all |-> all,
     k |-> 1, stack |-> <<>>, sorted |-> <<>>, visited |-> {},
     expansions |-> <<>>]

\* mutant of dfs_already_visited: the visited test never returns
dfs_visited_test_dropped(idx, visited) == FALSE

\* if node_idx in visited: return
dfs_already_visited(idx, visited) == idx \in visited

DfsTop == dfs.stack[Len(dfs.stack)]

DfsPop == SubSeq(dfs.stack, 1, Len(dfs.stack) - 1)

\* for root_idx in root_nodes: dfs(root_idx)
dfs_call_root ==
    /\ dfs.pc = "roots"
    /\ dfs.stack = <<>>
    /\ dfs.k <= Len(dfs.roots)
    /\ dfs' = [dfs EXCEPT !.k = @ + 1,
                          !.stack = <<[idx |-> dfs.roots[dfs.k], at |-> 0]>>]
    /\ UNCHANGED fixer_vars

\* the call finds its argument in visited and returns
dfs_return_visited ==
    /\ dfs.pc = "roots"
    /\ dfs.stack # <<>>
    /\ DfsTop.at = 0
    /\ dfs_already_visited(DfsTop.idx, dfs.visited)
    /\ dfs' = [dfs EXCEPT !.stack = DfsPop]
    /\ UNCHANGED fixer_vars

\* visited.add(node_idx); sorted_indices.append(node_idx)
dfs_expand ==
    /\ dfs.pc = "roots"
    /\ dfs.stack # <<>>
    /\ DfsTop.at = 0
    /\ ~dfs_already_visited(DfsTop.idx, dfs.visited)
    /\ dfs' = [dfs EXCEPT !.visited = @ \cup {DfsTop.idx},
                          !.sorted = Append(@, DfsTop.idx),
                          !.expansions = Append(@, DfsTop.idx),
                          !.stack[Len(dfs.stack)].at = 1]
    /\ UNCHANGED fixer_vars

\* for child_idx in node_children.get(node_idx, []): dfs(child_idx)
dfs_call_child ==
    /\ dfs.pc = "roots"
    /\ dfs.stack # <<>>
    /\ DfsTop.at >= 1
    /\ DfsTop.at <= Len(ChildrenGet(dfs.children, DfsTop.idx))
    /\ Len(dfs.stack) < MaxDepth
    /\ dfs' = [dfs EXCEPT !.stack =
                  Append([dfs.stack EXCEPT ![Len(dfs.stack)].at = @ + 1],
                         [idx |-> ChildrenGet(dfs.children, DfsTop.idx)[DfsTop.at],
                          at |-> 0])]
    /\ UNCHANGED fixer_vars

\* the loop over the children is over: the call returns
dfs_return ==
    /\ dfs.pc = "roots"
    /\ dfs.stack # <<>>
    /\ DfsTop.at > Len(ChildrenGet(dfs.children, DfsTop.idx))
    /\ dfs' = [dfs EXCEPT !.stack = DfsPop]
    /\ UNCHANGED fixer_vars

\* the roots loop is over: the final loop appends what was never visited
dfs_finish ==
    /\ dfs.pc = "roots"
    /\ dfs.stack = <<>>
    /\ dfs.k > Len(dfs.roots)
    /\ dfs' = [dfs EXCEPT !.pc = "done",
                          !.sorted = @ \o FilterOut(dfs.all, dfs.visited)]
    /\ UNCHANGED fixer_vars

\* a traversal of topological_sort_nodes over any node list, or of
\* topological_sort_joints over any joints list that indexes the node list
InitDfs ==
    /\ \/ /\ InitNodes
          /\ dfs = dfs_begin(node_children(gltf_data.nodes),
                             root_nodes(gltf_data.nodes),
                             RangeNotIn(0, Len(gltf_data.nodes), {}))
       \/ /\ InitJoints
          /\ JointsIndexable(gltf_data.skins[1].joints, gltf_data.nodes)
          /\ dfs = dfs_begin(joint_children(gltf_data.skins[1].joints, gltf_data.nodes),
                             root_joints(gltf_data.skins[1].joints, gltf_data.nodes),
                             gltf_data.skins[1].joints)
    /\ Loaded

NextDfs ==
    \/ dfs_call_root
    \/ dfs_return_visited
    \/ dfs_expand
    \/ dfs_call_child
    \/ dfs_return
    \/ dfs_finish

\* the interpreter runs the traversal on: a step that can be taken is taken
SpecDfs == InitDfs /\ [][NextDfs]_vars /\ WF_vars(NextDfs)

\* ------------------------------------------------------------------ numbers
\* A Python float is <<key, above>>.  key is the float32 it equals or the
\* nearest float32 toward zero, as sign and magnitude: the 31 low bits of the
\* IEEE-754 pattern, negated when the sign bit is set; floats of one sign are
\* ordered as their keys are.  above = 1 marks a double that lies beyond key,
\* away from zero, before the next float32, and that rounds to that next
\* float32: the multiples of 1/30 and the double DBL_MAX, past the largest
\* float32.  A key beyond the key of infinity is a NaN.
RECURSIVE TwoTo(_)
TwoTo(e) == IF e = 0 THEN 1 ELSE 2 * TwoTo(e - 1)

RECURSIVE Log2(_)
Log2(n) == IF n < 2 THEN 0 ELSE 1 + Log2(n \div 2)

AbsInt(i) == IF i < 0 THEN 0 - i ELSE i

InfKey == 255 * TwoTo(23)

FltMaxKey == InfKey - 1

NaNKey == InfKey + TwoTo(22)

\* the float that equals the integer n, |n| < 2^24
IntNum(n) ==
    LET a == AbsInt(n)
        e == Log2(a)
        key == IF a = 0 THEN 0
               ELSE (127 + e) * TwoTo(23) + (a - TwoTo(e)) * TwoTo(23 - e)
    IN  <<IF n < 0 THEN 0 - key ELSE key, 0>>

Infinity == <<InfKey, 0>>

NaN == <<NaNKey, 0>>

\* DBL_MAX = 1.7976931348623157e+308
DBL_MAX == <<FltMaxKey, 1>>

NumNeg(v) == <<0 - v[1], v[2]>>

\* abs(v)
NumAbs(v) == <<AbsInt(v[1]), v[2]>>

\* math.isnan(v), v != v
IsNaN(v) == AbsInt(v[1]) > InfKey

\* math.isinf(v), float('inf') == abs(v)
IsInf(v) == AbsInt(v[1]) = InfKey

\* a < b: False when either is a NaN
NumLt(a, b) ==
    /\ ~IsNaN(a)
    /\ ~IsNaN(b)
    /\ \/ a[1] < b[1]
       \/ a[1] = b[1] /\ (IF a[1] >= 0 THEN a[2] < b[2] ELSE a[2] > b[2])

\* abs(v) > 1e100: no float32 is that large, infinity and DBL_MAX are
ExceedsE100(v) == NumLt(<<FltMaxKey, 0>>, NumAbs(v))

\* min(values) and max(values) of a non-empty list: the first value is kept
\* until a later one compares below (above) it
RECURSIVE PyMinFrom(_, _, _)
PyMinFrom(values, k, cur) ==
    IF k > Len(values) THEN cur
    ELSE PyMinFrom(values, k + 1, IF NumLt(values[k], cur) THEN values[k] ELSE cur)

PyMin(values) == PyMinFrom(values, 2, values[1])

RECURSIVE PyMaxFrom(_, _, _)
PyMaxFrom(values, k, cur) ==
    IF k > Len(values) THEN cur
    ELSE PyMaxFrom(values, k + 1, IF NumLt(cur, values[k]) THEN values[k] ELSE cur)

PyMax(values) == PyMaxFrom(values, 2, values[1])

\* i * (1.0 / 30.0), which for these i is the same double as i / 30.0: none
\* but 0 is a float32, and each rounds up to the float32 after its key
frame_time_multiple(i) ==
    CASE i = 0 -> <<0, 0>>
      [] i = 1 -> <<1023969416, 1>>
      [] i = 2 -> <<1032358024, 1>>
      [] i = 3 -> <<1036831948, 1>>
      [] i = 4 -> <<1040746632, 1>>
      [] i = 5 -> <<1042983594, 1>>
      [] i = 6 -> <<1045220556, 1>>

\* --------------------------------------------------------------- the buffer
\* bin_data is a sequence of bytes; positions are 0-based as in Python.
\* struct.unpack_from('<f', bin_data, pos)[0]
unpack_float(data, pos) ==
    LET b0 == At(data, pos)
        b1 == At(data, pos + 1)
        b2 == At(data, pos + 2)
        b3 == At(data, pos + 3)
        mag == b0 + 256 * b1 + 65536 * b2 + 16777216 * (b3 % 128)
    IN  <<IF b3 >= 128 THEN 0 - mag ELSE mag, 0>>

\* the float32 a float is rounded to by struct.pack('<f', v)
float32_key(v) ==
    IF v[2] = 0 THEN v[1] ELSE IF v[1] >= 0 THEN v[1] + 1 ELSE v[1] - 1

\* the four bytes of struct.pack('<f', v)
pack_float(v) ==
    LET key == float32_key(v)
        mag == AbsInt(key)
    IN  <<mag % 256, (mag \div 256) % 256, (mag \div 65536) % 256,
          (mag \div 16777216) + (IF key < 0 THEN 128 ELSE 0)>>

\* struct.pack_into: the bytes replace those at pos, the length is kept
pack_into(data, pos, bytes) ==
    [q \in 1..Len(data) |->
        IF q - 1 >= pos /\ q - 1 < pos + Len(bytes) THEN bytes[q - pos] ELSE data[q]]

\* COMPONENT_TYPES: componentType -> size in bytes, 0 for a type not in it
component_size(component_type) ==
    CASE component_type \in {5120, 5121} -> 1
      [] component_type \in {5122, 5123} -> 2
      [] component_type \in {5125, 5126} -> 4
      [] OTHER -> 0

\* little-endian unsigned integer of size bytes at pos
RECURSIVE unsigned_at(_, _, _)
unsigned_at(data, pos, size) ==
    IF size = 0 THEN 0
    ELSE At(data, pos) + 256 * unsigned_at(data, pos + 1, size - 1)

\* struct.unpack_from(fmt_char, bin_data, pos)[0] for the format of the type
unpack_component(component_type, data, pos) ==
    LET size == component_size(component_type)
        u == unsigned_at(data, pos, size)
    IN  CASE component_type = 5126 -> unpack_float(data, pos)
          [] component_type \in {5121, 5123, 5125} -> IntNum(u)
          [] component_type \in {5120, 5122} ->
                 IntNum(IF u >= TwoTo(8 * size - 1) THEN u - TwoTo(8 * size) ELSE u)

\* TYPE_SIZES.get(accessor_type, 1) of GLTFAnimationFixer
TYPE_SIZES_get(accessor_type) ==
    CASE accessor_type = "SCALAR" -> 1
      [] accessor_type = "VEC2" -> 2
      [] accessor_type = "VEC3" -> 3
      [] accessor_type = "VEC4" -> 4
      [] accessor_type = "MAT2" -> 4
      [] accessor_type = "MAT3" -> 9
      [] accessor_type = "MAT4" -> 16
      [] OTHER -> 1

\* type_sizes.get(acc_type, 1) of fix_extreme_coordinates
type_sizes_get(acc_type) ==
    CASE acc_type = "SCALAR" -> 1
      [] acc_type = "VEC2" -> 2
      [] acc_type = "VEC3" -> 3
      [] acc_type = "VEC4" -> 4
      [] acc_type = "MAT4" -> 16
      [] OTHER -> 1

\* ------------------------------------------------------ the accessor fixers
\* gltf_json: the document of DaybreakGLTFFixer and of GLTFAnimationFixer.
\* An accessor is [bufferView, byteOffset, componentType, count, type, min,
\* max]: bufferView is NoRef when absent, min and max are <<>> when absent.
\* A buffer view is [buffer, byteOffset, byteStride, byteLength], buffer NoRef
\* and byteStride and byteLength 0 when absent; no repair uses byteLength.  An
\* animation is the list of the 'input' of its samplers, NoRef when absent.
first_or_zero(list) == IF list = <<>> THEN IntNum(0) ELSE list[1]

\* [f(i) for i in range(n)] for the positions that pass: kept ascending
RECURSIVE ReadWhile(_, _, _, _, _)
ReadWhile(data, base, step, i, n) ==
    IF i >= n THEN <<>>
    ELSE IF base + i * step + 4 <= Len(data)
         THEN <<unpack_float(data, base + i * step)>> \o
              ReadWhile(data, base, step, i + 1, n)
         ELSE ReadWhile(data, base, step, i + 1, n)

\* mutant of is_corrupted: min_val >= max_val in the place of min_val > max_val
is_corrupted_when_equal(min_val, max_val) ==
    \/ ExceedsE100(min_val)
    \/ ExceedsE100(max_val)
    \/ IsInf(min_val)
    \/ IsInf(max_val)
    \/ IsNaN(min_val)
    \/ IsNaN(max_val)
    \/ ~NumLt(min_val, max_val)

\* the corruption test of fix_animation_timing on min[0] and max[0]
is_corrupted(min_val, max_val) ==
    \/ ExceedsE100(min_val)
    \/ ExceedsE100(max_val)
    \/ IsInf(min_val)
    \/ IsInf(max_val)
    \/ IsNaN(min_val)
    \/ IsNaN(max_val)
    \/ NumLt(max_val, min_val)

\* the test of fix_animation_timing on the samples read
actual_corrupted(times) ==
    \E k \in 1..Len(times) :
        ExceedsE100(times[k]) \/ IsInf(times[k]) \/ IsNaN(times[k])

\* the write loop of fix_animation_timing: sample i at byte_offset + 4 i, up
\* to the first that would end past the buffer, where pack_into raises
RECURSIVE write_times(_, _, _, _)
write_times(data, byte_offset, i, n) ==
    IF i >= n \/ byte_offset + i * 4 + 4 > Len(data) THEN data
    ELSE write_times(pack_into(data, byte_offset + i * 4,
                               pack_float(frame_time_multiple(i))),
                     byte_offset, i + 1, n)

\* one pass of the sampler loop of fix_animation_timing.
\* st = [accessors, bin_data, fixes_applied, raised]
timing_sampler(buffer_views, anim_idx, sampler_idx, input, st) ==
    IF st.raised # "none" \/ input = NoRef THEN st
    ELSE IF input >= Len(st.accessors) THEN [st EXCEPT !.raised = "IndexError"]
    ELSE
    LET accessor == At(st.accessors, input)
        min_val == first_or_zero(accessor.min)
        max_val == first_or_zero(accessor.max)
        bv == accessor.bufferView
        byte_offset == At(buffer_views, bv).byteOffset + accessor.byteOffset
        count == accessor.count
        times == ReadWhile(st.bin_data, byte_offset, 4, 0, count)
        regenerate == actual_corrupted(times)
        written == write_times(st.bin_data, byte_offset, 0, count)
        write_fails == \E i \in 0..(count - 1) :
                           byte_offset + i * 4 + 4 > Len(st.bin_data)
        new_times == [k \in 1..count |-> frame_time_multiple(k - 1)]
        final == IF regenerate THEN new_times ELSE times
        who == [anim |-> anim_idx, sampler |-> sampler_idx]
    IN  IF ~is_corrupted(min_val, max_val) THEN st
        ELSE IF bv = NoRef \/ bv >= Len(buffer_views) THEN st
        ELSE IF times = <<>> THEN st
        ELSE IF regenerate /\ write_fails
        THEN [st EXCEPT !.bin_data = written, !.raised = "struct.error"]
        ELSE [st EXCEPT
                 !.bin_data = IF regenerate THEN written ELSE @,
                 !.accessors[input + 1].min = <<PyMin(final)>>,
                 !.accessors[input + 1].max = <<PyMax(final)>>,
                 !.fixes_applied =
                     @ \o (IF regenerate
                           THEN <<[fix |-> "regenerated", at |-> who]>>
                           ELSE <<>>)
                       \o <<[fix |-> "timing", at |-> who]>>]

\* the loops over the animations and over the samplers of each
RECURSIVE timing_samplers(_, _, _, _, _)
timing_samplers(buffer_views, anim_idx, samplers, k, st) ==
    IF k > Len(samplers) THEN st
    ELSE timing_samplers(buffer_views, anim_idx, samplers, k + 1,
             timing_sampler(buffer_views, anim_idx, k - 1, samplers[k], st))

RECURSIVE timing_animations(_, _, _, _)
timing_animations(buffer_views, animations, a, st) ==
    IF a > Len(animations) THEN st
    ELSE timing_animations(buffer_views, animations, a + 1,
             timing_samplers(buffer_views, a - 1, animations[a], 1, st))

fix_animation_timing_of(json, data, fixes) ==
    timing_animations(json.bufferViews, json.animations, 1,
        [accessors |-> json.accessors, bin_data |-> data,
         fixes_applied |-> fixes, raised |-> "none"])

\* abs(v) > 10000 or math.isinf(v) or math.isnan(v), for some v of the list
is_extreme(values) ==
    \E k \in 1..Len(values) :
        \/ NumLt(IntNum(10000), NumAbs(values[k]))
        \/ IsInf(values[k])
        \/ IsNaN(values[k])

\* comp_values of fix_extreme_coordinates: component comp of element i is
\* read at byte_offset + (i * num_components + comp) * 4
comp_values(data, byte_offset, num_components, comp, count) ==
    ReadWhile(data, byte_offset + comp * 4, num_components * 4, 0, count)

\* one pass of the accessor loop of fix_extreme_coordinates.
\* st = [accessors, fixes_applied, issues_found]
extreme_accessor(buffer_views, data, acc_idx, st) ==
    LET accessor == At(st.accessors, acc_idx)
        bv == accessor.bufferView
        byte_offset == At(buffer_views, bv).byteOffset + accessor.byteOffset
        num_components == type_sizes_get(accessor.type)
        all_values == [c \in 1..num_components |->
                          comp_values(data, byte_offset, num_components, c - 1,
                                      accessor.count)]
        new_min == [c \in 1..num_components |->
                       IF all_values[c] = <<>> THEN IntNum(0)
                       ELSE PyMin(all_values[c])]
        new_max == [c \in 1..num_components |->
                       IF all_values[c] = <<>> THEN IntNum(0)
                       ELSE PyMax(all_values[c])]
    IN  IF accessor.componentType # 5126 THEN st
        ELSE IF accessor.min = <<>> \/ accessor.max = <<>> THEN st
        ELSE IF ~is_extreme(accessor.min \o accessor.max) THEN st
        ELSE IF bv = NoRef \/ bv >= Len(buffer_views) THEN st
        ELSE IF is_extreme(new_min \o new_max)
        THEN [st EXCEPT !.issues_found =
                            Append(@, [issue |-> "extreme", accessor |-> acc_idx])]
        ELSE [st EXCEPT !.accessors[acc_idx + 1].min = new_min,
                        !.accessors[acc_idx + 1].max = new_max,
                        !.fixes_applied =
                            Append(@, [fix |-> "bounds", at |-> acc_idx])]

RECURSIVE extreme_accessors(_, _, _, _)
extreme_accessors(buffer_views, data, acc_idx, st) ==
    IF acc_idx >= Len(st.accessors) THEN st
    ELSE extreme_accessors(buffer_views, data, acc_idx + 1,
             extreme_accessor(buffer_views, data, acc_idx, st))

fix_extreme_coordinates_of(json, data, fixes, issues) ==
    extreme_accessors(json.bufferViews, data, 0,
        [accessors |-> json.accessors, fixes_applied |-> fixes,
         issues_found |-> issues])

\* ------------------------------------------------------- GLTFAnimationFixer
\* the stride of read_accessor_data and write_accessor_data
accessor_stride(buffer_view, accessor) ==
    IF buffer_view.byteStride # 0 THEN buffer_view.byteStride
    ELSE component_size(accessor.componentType) * TYPE_SIZES_get(accessor.type)

\* the read loops of read_accessor_data from component j of element i on:
\* the values read until one would end past the buffer
RECURSIVE read_components(_, _, _, _, _)
read_components(data, buffer_view, accessor, i, j) ==
    LET size == component_size(accessor.componentType)
        component_pos == buffer_view.byteOffset + accessor.byteOffset
                             + i * accessor_stride(buffer_view, accessor) + j * size
    IN  IF i >= accessor.count THEN <<>>
        ELSE IF j >= TYPE_SIZES_get(accessor.type)
        THEN read_components(data, buffer_view, accessor, i + 1, 0)
        ELSE IF component_pos + size > Len(data) THEN <<>>
        ELSE <<unpack_component(accessor.componentType, data, component_pos)>> \o
             read_components(data, buffer_view, accessor, i, j + 1)

\* read_accessor_data, for an accessor_idx and a bufferView that are in range
read_accessor_data(json, data, accessor_idx) ==
    LET accessor == At(json.accessors, accessor_idx)
    IN  IF accessor.bufferView = NoRef THEN <<>>
        ELSE IF component_size(accessor.componentType) = 0 THEN <<>>
        ELSE read_components(data, At(json.bufferViews, accessor.bufferView),
                             accessor, 0, 0)

\* write_components without the test of the position against the buffer's end
RECURSIVE write_components_unchecked(_, _, _, _, _, _, _)
write_components_unchecked(data, buffer_view, accessor, values, i, j, value_idx) ==
    LET size == component_size(accessor.componentType)
        component_pos == buffer_view.byteOffset + accessor.byteOffset
                             + i * accessor_stride(buffer_view, accessor) + j * size
    IN  IF i >= accessor.count \/ value_idx >= Len(values)
        THEN [data |-> data, ok |-> TRUE]
        ELSE IF j >= TYPE_SIZES_get(accessor.type)
        THEN write_components_unchecked(data, buffer_view, accessor, values,
                                        i + 1, 0, value_idx)
        ELSE write_components_unchecked(
                 pack_into(data, component_pos, pack_float(At(values, value_idx))),
                 buffer_view, accessor, values, i, j + 1, value_idx + 1)

\* the write loops of write_accessor_data from component j of element i on,
\* value_idx values written so far: [data, ok], ok False when a component
\* would end past the buffer
RECURSIVE write_components(_, _, _, _, _, _, _)
write_components(data, buffer_view, accessor, values, i, j, value_idx) ==
    LET size == component_size(accessor.componentType)
        component_pos == buffer_view.byteOffset + accessor.byteOffset
                             + i * accessor_stride(buffer_view, accessor) + j * size
    IN  IF i >= accessor.count \/ value_idx >= Len(values)
        THEN [data |-> data, ok |-> TRUE]
        ELSE IF j >= TYPE_SIZES_get(accessor.type)
        THEN write_components(data, buffer_view, accessor, values, i + 1, 0, value_idx)
        ELSE IF component_pos + size > Len(data) THEN [data |-> data, ok |-> FALSE]
        ELSE write_components(
                 pack_into(data, component_pos, pack_float(At(values, value_idx))),
                 buffer_view, accessor, values, i, j + 1, value_idx + 1)

\* write_accessor_data for a float accessor that read_accessor_data has read
write_accessor_data(json, data, accessor_idx, values) ==
    LET accessor == At(json.accessors, accessor_idx)
    IN  write_components(data, At(json.bufferViews, accessor.bufferView),
                         accessor, values, 0, 0, 0)

\* [v for v in values if not (float('nan') == v or float('inf') == abs(v) or v != v)]
RECURSIVE valid_values(_)
valid_values(values) ==
    IF values = <<>> THEN <<>>
    ELSE IF IsInf(Head(values)) \/ IsNaN(Head(values)) THEN valid_values(Tail(values))
    ELSE <<Head(values)>> \o valid_values(Tail(values))

\* sorted(input_accessors), from index lo on
RECURSIVE SortedFrom(_, _)
SortedFrom(S, lo) ==
    IF \A x \in S : x < lo THEN <<>>
    ELSE IF lo \in S THEN <<lo>> \o SortedFrom(S, lo + 1)
    ELSE SortedFrom(S, lo + 1)

input_accessors(animations) ==
    UNION {Elems(animations[a]) : a \in 1..Len(animations)} \ {NoRef}

\* one pass of the accessor loop of fix_animation_accessors.
\* st = [accessors, bin_data, bin_data_modified, fixed_count, raised]
timing_accessor(buffer_views, accessor_idx, st) ==
    IF st.raised # "none" THEN st
    ELSE IF accessor_idx >= Len(st.accessors) THEN [st EXCEPT !.raised = "IndexError"]
    ELSE
    LET accessor == At(st.accessors, accessor_idx)
        json == [accessors |-> st.accessors, bufferViews |-> buffer_views]
        min_val == first_or_zero(accessor.min)
        max_val == first_or_zero(accessor.max)
        values == read_accessor_data(json, st.bin_data, accessor_idx)
        valid == valid_values(values)
        frame_count == accessor.count
        corrected_values == [k \in 1..frame_count |-> frame_time_multiple(k - 1)]
        w == write_accessor_data(json, st.bin_data, accessor_idx, corrected_values)
    IN  IF ~(ExceedsE100(min_val) \/ ExceedsE100(max_val) \/ NumLt(max_val, min_val))
        THEN st
        ELSE IF accessor.bufferView # NoRef /\ accessor.bufferView >= Len(buffer_views)
        THEN [st EXCEPT !.raised = "IndexError"]
        ELSE IF values = <<>> THEN st
        ELSE IF valid # <<>>
        THEN [st EXCEPT !.accessors[accessor_idx + 1].min = <<PyMin(valid)>>,
                        !.accessors[accessor_idx + 1].max = <<PyMax(valid)>>,
                        !.fixed_count = @ + 1]
        ELSE [st EXCEPT !.bin_data = w.data,
                        !.bin_data_modified = @ \/ w.ok,
                        !.accessors[accessor_idx + 1].min = <<IntNum(0)>>,
                        !.accessors[accessor_idx + 1].max =
                            <<frame_time_multiple(frame_count - 1)>>,
                        !.fixed_count = @ + 1]

RECURSIVE timing_accessors(_, _, _, _)
timing_accessors(buffer_views, order, k, st) ==
    IF k > Len(order) THEN st
    ELSE timing_accessors(buffer_views, order, k + 1,
                          timing_accessor(buffer_views, order[k], st))

fix_animation_accessors_of(json, data, modified, count) ==
    timing_accessors(json.bufferViews,
        SortedFrom(input_accessors(json.animations), 0), 1,
        [accessors |-> json.accessors, bin_data |-> data,
         bin_data_modified |-> modified, fixed_count |-> count,
         raised |-> "none"])

\* --------------------------------------------- the accessor fixers' methods
AccessorSnapshot ==
    [json |-> gltf_json, bin |-> bin_data, fixes |-> fixes_applied,
     issues |-> issues_found, files |-> files]

\* the scripts that run DaybreakGLTFFixer and the one that runs
\* GLTFAnimationFixer
RunsDaybreak ==
    program \in {"either", "fix_daybreak_gltf", "convert_daybreak_x_to_gltf"}

RunsOld == program \in {"either", "fix_gltf_animation_timing"}

\* fix_all runs fix_animation_timing first; it has no handler, an exception
\* leaves it
fix_animation_timing ==
    /\ RunsDaybreak
    /\ raised = "none"
    /\ last = "load"
    /\ LET r == fix_animation_timing_of(gltf_json, bin_data, fixes_applied)
       IN  /\ gltf_json' = [gltf_json EXCEPT !.accessors = r.accessors]
           /\ bin_data' = r.bin_data
           /\ fixes_applied' = r.fixes_applied
           /\ raised' = r.raised
    /\ pre' = AccessorSnapshot
    /\ prev' = last
    /\ last' = "fix_animation_timing"
    /\ UNCHANGED <<issues_found, bin_data_modified, fixed_count>>
    /\ UNCHANGED <<bone_vars, file_vars>>

\* fix_all runs fix_extreme_coordinates next
fix_extreme_coordinates ==
    /\ raised = "none"
    /\ last = "fix_animation_timing"
    /\ LET r == fix_extreme_coordinates_of(gltf_json, bin_data, fixes_applied,
                                           issues_found)
       IN  /\ gltf_json' = [gltf_json EXCEPT !.accessors = r.accessors]
           /\ fixes_applied' = r.fixes_applied
           /\ issues_found' = r.issues_found
    /\ pre' = AccessorSnapshot
    /\ prev' = last
    /\ last' = "fix_extreme_coordinates"
    /\ UNCHANGED <<bin_data, raised, bin_data_modified, fixed_count>>
    /\ UNCHANGED <<bone_vars, file_vars>>

\* GLTFAnimationFixer.fix runs fix_animation_accessors on what it has loaded
fix_animation_accessors ==
    /\ RunsOld
    /\ raised = "none"
    /\ last = "load"
    /\ LET r == fix_animation_accessors_of(gltf_json, bin_data,
                                           bin_data_modified, fixed_count)
       IN  /\ gltf_json' = [gltf_json EXCEPT !.accessors = r.accessors]
           /\ bin_data' = r.bin_data
           /\ bin_data_modified' = r.bin_data_modified
           /\ fixed_count' = r.fixed_count
           /\ raised' = r.raised
    /\ pre' = AccessorSnapshot
    /\ prev' = last
    /\ last' = "fix_animation_accessors"
    /\ UNCHANGED <<fixes_applied, issues_found>>
    /\ UNCHANGED <<bone_vars, file_vars>>

\* fix_all runs validate_structure after the two repairs: an issue for each
\* of scenes and nodes the document lacks, for each accessor whose buffer
\* view is past the end of bufferViews and for each buffer view whose buffer
\* is past the end of buffers
validate_structure_of(json, issues) ==
    LET missing == SelectSeq(<<"scenes", "nodes">>, LAMBDA f : f \notin json.fields)
        bad_accessors ==
            SortedFrom({i \in 0..(Len(json.accessors) - 1) :
                           /\ At(json.accessors, i).bufferView # NoRef
                           /\ At(json.accessors, i).bufferView >= Len(json.bufferViews)}, 0)
        bad_views ==
            SortedFrom({i \in 0..(Len(json.bufferViews) - 1) :
                           /\ At(json.bufferViews, i).buffer # NoRef
                           /\ At(json.bufferViews, i).buffer >= Len(json.buffers)}, 0)
    IN  issues
        \o [k \in 1..Len(missing) |-> [issue |-> "missing", field |-> missing[k]]]
        \o [k \in 1..Len(bad_accessors) |->
               [issue |-> "bufferView", accessor |-> bad_accessors[k],
                bufferView |-> At(json.accessors, bad_accessors[k]).bufferView]]
        \o [k \in 1..Len(bad_views) |->
               [issue |-> "buffer", bufferView |-> bad_views[k],
                buffer |-> At(json.bufferViews, bad_views[k]).buffer]]

validate_structure ==
    /\ raised = "none"
    /\ last = "fix_extreme_coordinates"
    /\ issues_found' = validate_structure_of(gltf_json, issues_found)
    /\ pre' = AccessorSnapshot
    /\ prev' = last
    /\ last' = "validate_structure"
    /\ UNCHANGED <<gltf_json, bin_data, fixes_applied, raised, bin_data_modified,
                   fixed_count>>
    /\ UNCHANGED <<bone_vars, file_vars>>

\* fix_all ends with print_report, which shows fixes_applied and issues_found
\* and changes neither, and returns whether issues_found is empty
print_report ==
    /\ raised = "none"
    /\ last = "validate_structure"
    /\ pre' = AccessorSnapshot
    /\ prev' = last
    /\ last' = "print_report"
    /\ UNCHANGED <<accessor_vars, raised>>
    /\ UNCHANGED <<bone_vars, file_vars>>

\* ------------------------------------------------------ loading and saving
\* the document before it is loaded
None == [none |-> TRUE]

\* path.parent / name, name a [stem, suffix]
Join(path, name) ==
    [parent |-> path.parent, stem |-> name.stem, suffix |-> name.suffix]

\* a file is [bytes |-> ...], for a directory [dir |-> TRUE], or a text:
\* [json |-> document], the ASCII text json.dump writes of the document,
\* [text |-> ...], ASCII text that is no JSON, or [bom |-> text], the three
\* bytes of a UTF-8 byte order mark and then the text
exists(path) == path \in DOMAIN files

is_dir(path) == exists(path) /\ "dir" \in DOMAIN files[path]

\* the files with the content written to path
write_file(fs, path, content) == (path :> content) @@ fs

\* the encodings load_gltf tries, in this order
encodings == <<"utf-8", "utf-8-sig", "latin-1", "cp1252">>

\* open(path, 'r', encoding=encoding, errors='ignore').read() of a text
\* file: utf-8 decodes a byte order mark to the character U+FEFF, utf-8-sig
\* drops the mark the file starts with and decodes a second one as utf-8
\* does, latin-1 and cp1252 decode the three bytes to three characters
RECURSIVE decode(_, _)
decode(content, encoding) ==
    IF "bom" \notin DOMAIN content THEN content
    ELSE CASE encoding = "utf-8" -> [feff |-> decode(content.bom, "utf-8")]
           [] encoding = "utf-8-sig" -> decode(content.bom, "utf-8")
           [] OTHER -> [chars |-> decode(content.bom, encoding)]

\* json.load returns a document for the text of one and raises
\* JSONDecodeError for any other, also for one that starts with U+FEFF
json_parses(text) == "json" \in DOMAIN text

json_load(text) == text.json

\* the handler of load_gltf raises again after the first encoding
is_first_encoding(encoding) == encoding = encodings[1]

\* encoding == encodings[-1]
is_last_encoding(encoding) == encoding = encodings[Len(encodings)]

\* the loop of load_gltf over the encodings from the k-th on: the encodings
\* tried, the document of the first that parses, and JSONDecodeError raised
\* again when the last one fails
RECURSIVE load_document(_, _, _)
load_document(content, k, tried) ==
    LET encoding == encodings[k]
        text == decode(content, encoding)
    IN  IF json_parses(text)
        THEN [tried |-> Append(tried, encoding), document |-> json_load(text),
              raised |-> "none"]
        ELSE IF is_last_encoding(encoding)
        THEN [tried |-> Append(tried, encoding), document |-> None,
              raised |-> "JSONDecodeError"]
        ELSE load_document(content, k + 1, Append(tried, encoding))

\* DaybreakGLTFFixer.load, which main calls through fix_all once it has seen
\* that gltf_path exists: the document, then the buffer that buffers[0].uri
\* names, empty when the file is not there.  Any exception makes it return
\* False, with what it has set so far
load ==
    /\ program \in {"fix_daybreak_gltf", "convert_daybreak_x_to_gltf"}
    /\ raised = "none"
    /\ last = "init"
    /\ IF ~json_parses(decode(files[gltf_path], "utf-8"))
       THEN /\ last' = "load_failed"
            /\ UNCHANGED <<gltf_json, bin_data, bin_path>>
       ELSE LET doc == json_load(decode(files[gltf_path], "utf-8"))
                path == Join(gltf_path, doc.buffers[1].uri)
            IN  /\ gltf_json' = doc
                /\ IF doc.buffers = <<>>
                   THEN /\ last' = "load"
                        /\ UNCHANGED <<bin_data, bin_path>>
                   ELSE /\ bin_path' = path
                        /\ IF is_dir(path)
                           THEN last' = "load_failed" /\ UNCHANGED bin_data
                           ELSE /\ last' = "load"
                                /\ bin_data' = IF exists(path) THEN files[path].bytes
                                               ELSE <<>>
    /\ pre' = AccessorSnapshot
    /\ prev' = last
    /\ UNCHANGED <<fixes_applied, issues_found, bin_data_modified, fixed_count,
                   raised, files, gltf_path, output_path, program, loading>>
    /\ UNCHANGED bone_vars

\* GLTFAnimationFixer.load_gltf, after __init__ has seen that gltf_path
\* exists: the document, an error when it parses in no encoding, then the
\* buffer, which is opened without a look whether it is there
load_gltf ==
    /\ program = "fix_gltf_animation_timing"
    /\ raised = "none"
    /\ last = "init"
    /\ loading.pc = "idle"
    /\ IF load_document(files[gltf_path], 1, <<>>).raised # "none"
       THEN /\ raised' = "JSONDecodeError"
            /\ UNCHANGED <<gltf_json, bin_data, bin_path>>
       ELSE LET doc == load_document(files[gltf_path], 1, <<>>).document
                path == Join(gltf_path, doc.buffers[1].uri)
            IN  /\ gltf_json' = doc
                /\ IF doc.buffers = <<>>
                   THEN UNCHANGED <<bin_data, bin_path, raised>>
                   ELSE /\ bin_path' = path
                        /\ IF ~exists(path)
                           THEN raised' = "FileNotFoundError" /\ UNCHANGED bin_data
                           ELSE IF is_dir(path)
                           THEN raised' = "IsADirectoryError" /\ UNCHANGED bin_data
                           ELSE bin_data' = files[path].bytes /\ UNCHANGED raised
    /\ last' = "load"
    /\ pre' = AccessorSnapshot
    /\ prev' = last
    /\ UNCHANGED <<fixes_applied, issues_found, bin_data_modified, fixed_count,
                   files, gltf_path, output_path, program, loading>>
    /\ UNCHANGED bone_vars

\* where DaybreakGLTFFixer.save writes the document: main of
\* fix_daybreak_gltf.py passes its second argument or None, for which save
\* takes <stem>_fixed.gltf next to gltf_path; main of
\* convert_daybreak_x_to_gltf.py passes the same two
save_output_path ==
    IF output_path = NoPath
    THEN [parent |-> gltf_path.parent, stem |-> gltf_path.stem \o "_fixed",
          suffix |-> ".gltf"]
    ELSE output_path

\* DaybreakGLTFFixer.save, which both mains call when fix_all has returned,
\* True or False: buffers[0].uri becomes <stem of the output>.bin when there
\* are buffer bytes, the document is written, then the bytes if there are
\* any.  open raises for a path that is a directory
save ==
    /\ program \in {"fix_daybreak_gltf", "convert_daybreak_x_to_gltf"}
    /\ raised = "none"
    /\ last \in {"print_report", "load_failed"}
    /\ LET out == save_output_path
           new_bin_name == [stem |-> out.stem, suffix |-> ".bin"]
           new_bin_path == Join(out, new_bin_name)
           doc == IF bin_data # <<>> /\ gltf_json.buffers # <<>>
                  THEN [gltf_json EXCEPT !.buffers[1].uri = new_bin_name]
                  ELSE gltf_json
           json_written == write_file(files, out, [json |-> doc])
       IN  /\ gltf_json' = doc
           /\ IF is_dir(out)
              THEN raised' = "IsADirectoryError" /\ UNCHANGED files
              ELSE IF bin_data = <<>>
              THEN files' = json_written /\ UNCHANGED raised
              ELSE IF is_dir(new_bin_path)
              THEN raised' = "IsADirectoryError" /\ files' = json_written
              ELSE /\ files' = write_file(json_written, new_bin_path,
                                          [bytes |-> bin_data])
                   /\ UNCHANGED raised
    /\ pre' = AccessorSnapshot
    /\ prev' = last
    /\ last' = "save"
    /\ UNCHANGED <<bin_data, fixes_applied, issues_found, bin_data_modified,
                   fixed_count, gltf_path, output_path, bin_path, program, loading>>
    /\ UNCHANGED bone_vars

\* self.output_path of GLTFAnimationFixer: the second argument, or gltf_path
\* itself
save_gltf_output_path == IF output_path = NoPath THEN gltf_path ELSE output_path

\* GLTFAnimationFixer.save_gltf, which fix calls after fix_animation_accessors:
\* the document is written, then the buffer if write_accessor_data has
\* marked it modified, under the uri it was loaded from, next to the output
save_gltf ==
    /\ program = "fix_gltf_animation_timing"
    /\ raised = "none"
    /\ last = "fix_animation_accessors"
    /\ LET out == save_gltf_output_path
           path == Join(out, gltf_json.buffers[1].uri)
           json_written == write_file(files, out, [json |-> gltf_json])
       IN  IF is_dir(out)
           THEN raised' = "IsADirectoryError" /\ UNCHANGED files
           ELSE IF ~(bin_data_modified /\ gltf_json.buffers # <<>>)
           THEN files' = json_written /\ UNCHANGED raised
           ELSE IF is_dir(path)
           THEN raised' = "IsADirectoryError" /\ files' = json_written
           ELSE /\ files' = write_file(json_written, path, [bytes |-> bin_data])
                /\ UNCHANGED raised
    /\ pre' = AccessorSnapshot
    /\ prev' = last
    /\ last' = "save_gltf"
    /\ UNCHANGED <<accessor_vars, gltf_path, output_path, bin_path, program,
                   loading>>
    /\ UNCHANGED bone_vars

\* the end of main of convert_daybreak_x_to_gltf.py: when the output is not
\* the file assimp has written, that file and the <stem>.bin next to it are
\* removed
clean_up ==
    /\ program = "convert_daybreak_x_to_gltf"
    /\ raised = "none"
    /\ last = "save"
    /\ LET temp_bin == Join(gltf_path, [stem |-> gltf_path.stem, suffix |-> ".bin"])
           removed == IF save_output_path # gltf_path /\ exists(gltf_path)
                      THEN {gltf_path} \cup (IF exists(temp_bin) THEN {temp_bin} ELSE {})
                      ELSE {}
       IN  files' = [p \in DOMAIN files \ removed |-> files[p]]
    /\ pre' = AccessorSnapshot
    /\ prev' = last
    /\ last' = "clean_up"
    /\ UNCHANGED <<accessor_vars, raised, gltf_path, output_path, bin_path, program,
                   loading>>
    /\ UNCHANGED bone_vars

\* ------------------------------------------------- documents with accessors
\* the bytes of 1.0, 2.0, 20000.0 and of a NaN
FloatWords ==
    {pack_float(IntNum(1)), pack_float(IntNum(2)), pack_float(IntNum(20000)),
     pack_float(NaN)}

RECURSIVE Flatten(_)
Flatten(words) == IF words = <<>> THEN <<>> ELSE Head(words) \o Flatten(Tail(words))

MkAccessor(bv, offset, ctype, count, type, lo, hi) ==
    [bufferView |-> bv, byteOffset |-> offset, componentType |-> ctype,
     count |-> count, type |-> type, min |-> lo, max |-> hi]

\* a view of buffer 0 that does not tell its byteLength
MkView(offset, stride) ==
    [buffer |-> 0, byteOffset |-> offset, byteStride |-> stride, byteLength |-> 0]

\* a document with its scenes and nodes and with one buffer, in model.bin
MkJson(accessors, views, animations) ==
    [accessors |-> accessors, bufferViews |-> views, animations |-> animations,
     fields |-> {"scenes", "nodes"},
     buffers |-> <<[uri |-> [stem |-> "model", suffix |-> ".bin"]]>>]

\* n copies of v
Filled(n, v) == [c \in 1..n |-> v]

\* min and max as the exporter leaves them (DBL_MAX and -DBL_MAX), with one
\* implausible value, in order, and the wrong way round
BoundsPairs ==
    {<<DBL_MAX, NumNeg(DBL_MAX)>>, <<IntNum(20000), IntNum(2)>>,
     <<IntNum(1), IntNum(2)>>, <<IntNum(2), IntNum(1)>>}

\* one timing accessor over every buffer, in every layout
InitTimingLayouts ==
    \E words \in SeqsUpTo(FloatWords, MaxWords), count \in 0..MaxCount,
       offset \in {0, 4}, stride \in {0, 8} :
        /\ bin_data = Flatten(words)
        /\ gltf_json = MkJson(
               <<MkAccessor(0, offset, 5126, count, "SCALAR",
                            <<DBL_MAX>>, <<NumNeg(DBL_MAX)>>)>>,
               <<MkView(0, stride)>>, <<<<0>>>>)

\* the samplers of one or two animations over one accessor, its bounds
\* plausible, implausible or absent
InitTimingSamplers ==
    \E words \in SeqsUpTo(FloatWords, MaxWords - 1), count \in 1..MaxCount,
       b \in BoundsPairs \cup {<<>>},
       anims \in {<<>>, <<<<0, 0>>>>, <<<<NoRef, 0>>>>, <<<<0>>, <<0>>>>,
                  <<<<>>, <<0>>>>, <<<<1>>>>, <<<<0, 1>>>>} :
        /\ bin_data = Flatten(words)
        /\ gltf_json = MkJson(
               <<MkAccessor(0, 0, 5126, count, "SCALAR",
                            IF b = <<>> THEN <<>> ELSE <<b[1]>>,
                            IF b = <<>> THEN <<>> ELSE <<b[2]>>)>>,
               <<MkView(0, 0)>>, anims)

\* a timing accessor of another component type, of vectors, without a buffer
\* view or with one that is not there
InitTimingTypes ==
    \E words \in SeqsUpTo(FloatWords, MaxWords - 1), count \in 1..MaxCount,
       ctype \in {5121, 5124, 5126}, type \in {"SCALAR", "VEC2"},
       bv \in {NoRef, 0, 1} :
        /\ bin_data = Flatten(words)
        /\ gltf_json = MkJson(
               <<MkAccessor(bv, 0, ctype, count, type,
                            <<DBL_MAX>>, <<NumNeg(DBL_MAX)>>)>>,
               <<MkView(0, 0)>>, <<<<0>>>>)

\* two timing accessors, one sample each, one after the other in the buffer
InitTimingPair ==
    \E words \in SeqsUpTo(FloatWords, MaxWords - 1),
       b0 \in BoundsPairs, b1 \in BoundsPairs,
       anims \in {<<<<0, 1>>>>, <<<<1>>, <<0>>>>} :
        /\ bin_data = Flatten(words)
        /\ gltf_json = MkJson(
               <<MkAccessor(0, 0, 5126, 1, "SCALAR", <<b0[1]>>, <<b0[2]>>),
                 MkAccessor(0, 4, 5126, 1, "SCALAR", <<b1[1]>>, <<b1[2]>>)>>,
               <<MkView(0, 0)>>, anims)

\* one spatial accessor over every buffer, in every layout
InitSpatialLayouts ==
    \E words \in SeqsUpTo(FloatWords, MaxWords), count \in 0..MaxCount,
       type \in {"SCALAR", "VEC2", "MAT2"}, offset \in {0, 4}, stride \in {0, 8},
       b \in {<<DBL_MAX, NumNeg(DBL_MAX)>>, <<IntNum(20000), IntNum(2)>>} :
        /\ bin_data = Flatten(words)
        /\ gltf_json = MkJson(
               <<MkAccessor(0, offset, 5126, count, type,
                            Filled(TYPE_SIZES_get(type), b[1]),
                            Filled(TYPE_SIZES_get(type), b[2]))>>,
               <<MkView(0, stride)>>, <<>>)

\* a spatial accessor that is skipped: not of floats, without bounds, bounds
\* plausible, no buffer view
InitSpatialSkips ==
    \E words \in SeqsUpTo(FloatWords, MaxWords - 1), count \in 1..MaxCount,
       ctype \in {5121, 5126}, bv \in {NoRef, 0, 1},
       b \in BoundsPairs \cup {<<>>} :
        /\ bin_data = Flatten(words)
        /\ gltf_json = MkJson(
               <<MkAccessor(bv, 0, ctype, count, "SCALAR",
                            IF b = <<>> THEN <<>> ELSE <<b[1]>>,
                            IF b = <<>> THEN <<>> ELSE <<b[2]>>)>>,
               <<MkView(4, 0)>>, <<>>)

\* a document that lacks scenes or nodes, its accessor's buffer view or its
\* view's buffer absent, there or past the end
InitStructure ==
    \E words \in SeqsUpTo(FloatWords, MaxWords - 1),
       fields \in SUBSET {"scenes", "nodes"}, bv \in {NoRef, 0, 1},
       buffer \in {NoRef, 0, 1}, b \in BoundsPairs,
       anims \in {<<>>, <<<<0>>>>} :
        /\ bin_data = Flatten(words)
        /\ gltf_json =
               [MkJson(<<MkAccessor(bv, 0, 5126, 1, "SCALAR", <<b[1]>>, <<b[2]>>)>>,
                       <<[MkView(0, 0) EXCEPT !.buffer = buffer]>>, anims)
                   EXCEPT !.fields = fields]

\* an accessor, of a sampler or not, over a view that tells its byteLength,
\* which the accessor's elements or the buffer may exceed
InitViewLengths ==
    \E words \in SeqsUpTo(FloatWords, MaxWords - 1), count \in 1..MaxCount,
       length \in {4, 8}, anims \in {<<>>, <<<<0>>>>} :
        /\ bin_data = Flatten(words)
        /\ gltf_json = MkJson(
               <<MkAccessor(0, 0, 5126, count, "SCALAR",
                            <<DBL_MAX>>, <<NumNeg(DBL_MAX)>>)>>,
               <<[MkView(0, 0) EXCEPT !.byteLength = length]>>, anims)

\* the bone fixer has loaded nothing
BoneFixerIdle ==
    /\ gltf_data = MkDoc(<<>>, <<>>, <<>>, <<>>)
    /\ reordered = FALSE
    /\ warned = {}
    /\ dfs = DfsIdle

\* either fixer after it has loaded the document and the buffer
InitAccessors ==
    /\ \/ InitTimingLayouts
       \/ InitTimingSamplers
       \/ InitTimingTypes
       \/ InitTimingPair
       \/ InitSpatialLayouts
       \/ InitSpatialSkips
       \/ InitStructure
       \/ InitViewLengths
    /\ fixes_applied = <<>>
    /\ issues_found = <<>>
    /\ bin_data_modified = FALSE
    /\ fixed_count = 0
    /\ raised = "none"
    /\ last = "load"
    /\ prev = "init"
    /\ FilesIdle
    /\ pre = AccessorSnapshot
    /\ BoneFixerIdle

NextAccessors ==
    \/ fix_animation_timing
    \/ fix_extreme_coordinates
    \/ fix_animation_accessors
    \/ validate_structure
    \/ print_report

SpecAccessors == InitAccessors /\ [][NextAccessors]_vars

\* ------------------------------------------------------- a run of a script
\* the document assimp has written and the place of another output
ModelPath == [parent |-> "in", stem |-> "model", suffix |-> ".gltf"]

OtherPath == [parent |-> "out", stem |-> "model", suffix |-> ".gltf"]

\* the start of main of one of the three scripts: gltf_path exists and holds
\* a document with one timing accessor, or does not parse; the buffer file
\* model.bin is there or not; the output is not named, is gltf_path itself
\* or is in another directory (convert_daybreak_x_to_gltf.py has assimp
\* write to the output it is given, so its gltf_path is that output); one of
\* the paths of the output may be a directory
InitSession ==
    /\ \E words \in SeqsUpTo(FloatWords, MaxWords - 1), count \in 1..MaxCount,
          parses \in BOOLEAN, there \in BOOLEAN,
          out \in {NoPath, ModelPath, OtherPath},
          dir \in {NoPath,
                   [parent |-> "in", stem |-> "model_fixed", suffix |-> ".gltf"],
                   [parent |-> "in", stem |-> "model_fixed", suffix |-> ".bin"],
                   [parent |-> "out", stem |-> "model", suffix |-> ".bin"]},
          script \in {"fix_daybreak_gltf", "convert_daybreak_x_to_gltf",
                      "fix_gltf_animation_timing"} :
           LET doc == MkJson(<<MkAccessor(0, 0, 5126, count, "SCALAR",
                                          <<DBL_MAX>>, <<NumNeg(DBL_MAX)>>)>>,
                             <<MkView(0, 0)>>, <<<<0>>>>)
               document == IF parses THEN [json |-> doc] ELSE [text |-> "{"]
               buffer == [bytes |-> Flatten(words)]
               bin == Join(ModelPath, doc.buffers[1].uri)
               model_files == IF there
                              THEN write_file(write_file(<<>>, ModelPath, document),
                                              bin, buffer)
                              ELSE write_file(<<>>, ModelPath, document)
           IN  /\ script = "convert_daybreak_x_to_gltf" => out # OtherPath
               /\ program = script
               /\ gltf_path = ModelPath
               /\ output_path = out
               /\ files = IF dir = NoPath THEN model_files
                          ELSE write_file(model_files, dir, [dir |-> TRUE])
    /\ bin_path = NoPath
    /\ loading = LoadingIdle
    /\ gltf_json = None
    /\ bin_data = <<>>
    /\ fixes_applied = <<>>
    /\ issues_found = <<>>
    /\ bin_data_modified = FALSE
    /\ fixed_count = 0
    /\ raised = "none"
    /\ last = "init"
    /\ prev = "init"
    /\ pre = AccessorSnapshot
    /\ BoneFixerIdle

NextSession ==
    \/ load
    \/ fix_animation_timing
    \/ fix_extreme_coordinates
    \/ validate_structure
    \/ print_report
    \/ save
    \/ clean_up
    \/ load_gltf
    \/ fix_animation_accessors
    \/ save_gltf

SpecSession == InitSession /\ [][NextSession]_vars

\* ------------------------------------------ load_gltf, attempt by attempt
\* load_gltf of GLTFBoneFixer and of GLTFAnimationFixer, which fix calls
\* first, comes to its loop over the encodings
load_gltf_begin ==
    /\ program \in {"fix_gltf_bone_order", "fix_gltf_animation_timing"}
    /\ raised = "none"
    /\ last = "init"
    /\ loading.pc = "idle"
    /\ loading' = [pc |-> "try", tried |-> <<>>]
    /\ UNCHANGED <<bone_vars, accessor_vars, raised, last, prev, pre>>
    /\ UNCHANGED <<files, gltf_path, output_path, bin_path, program>>

\* the body of the try: the file is read in the next encoding and parsed,
\* and a document is kept in gltf_data; GLTFBoneFixer returns at once and
\* GLTFAnimationFixer leaves the loop
load_gltf_try ==
    /\ loading.pc = "try"
    /\ LET encoding == encodings[Len(loading.tried) + 1]
           text == decode(files[gltf_path], encoding)
       IN  IF json_parses(text)
           THEN /\ loading' = [pc |-> "loaded", tried |-> Append(loading.tried, encoding)]
                /\ IF program = "fix_gltf_bone_order"
                   THEN gltf_data' = json_load(text) /\ UNCHANGED gltf_json
                   ELSE gltf_json' = json_load(text) /\ UNCHANGED gltf_data
           ELSE /\ loading' = [pc |-> "except", tried |-> Append(loading.tried, encoding)]
                /\ UNCHANGED <<gltf_data, gltf_json>>
    /\ UNCHANGED <<reordered, warned, dfs, bin_data, fixes_applied, issues_found,
                   bin_data_modified, fixed_count, raised, last, prev, pre>>
    /\ UNCHANGED <<files, gltf_path, output_path, bin_path, program>>

\* the handler of UnicodeDecodeError and JSONDecodeError: the error is
\* raised again after the last encoding, the loop goes on after another
load_gltf_except ==
    /\ loading.pc = "except"
    /\ IF is_last_encoding(loading.tried[Len(loading.tried)])
       THEN /\ loading' = [loading EXCEPT !.pc = "raised"]
            /\ raised' = "JSONDecodeError"
            /\ pre' = IF program = "fix_gltf_bone_order" THEN Snapshot
                      ELSE AccessorSnapshot
            /\ prev' = last
            /\ last' = IF program = "fix_gltf_bone_order" THEN "load_gltf" ELSE "load"
       ELSE /\ loading' = [loading EXCEPT !.pc = "try"]
            /\ UNCHANGED <<raised, pre, prev, last>>
    /\ UNCHANGED <<bone_vars, accessor_vars>>
    /\ UNCHANGED <<files, gltf_path, output_path, bin_path, program>>

\* after the loop: GLTFBoneFixer has returned; GLTFAnimationFixer opens the
\* buffer that buffers[0].uri names, without a look whether it is there
load_gltf_end ==
    /\ loading.pc = "loaded"
    /\ loading' = [loading EXCEPT !.pc = "returned"]
    /\ IF program = "fix_gltf_bone_order"
       THEN /\ pre' = Snapshot
            /\ last' = "load_gltf"
            /\ UNCHANGED <<bin_path, bin_data, raised>>
       ELSE /\ pre' = AccessorSnapshot
            /\ last' = "load"
            /\ IF gltf_json.buffers = <<>>
               THEN UNCHANGED <<bin_data, bin_path, raised>>
               ELSE LET path == Join(gltf_path, gltf_json.buffers[1].uri)
                    IN  /\ bin_path' = path
                        /\ IF ~exists(path)
                           THEN raised' = "FileNotFoundError" /\ UNCHANGED bin_data
                           ELSE IF is_dir(path)
                           THEN raised' = "IsADirectoryError" /\ UNCHANGED bin_data
                           ELSE bin_data' = files[path].bytes /\ UNCHANGED raised
    /\ prev' = last
    /\ UNCHANGED <<bone_vars, gltf_json, fixes_applied, issues_found,
                   bin_data_modified, fixed_count>>
    /\ UNCHANGED <<files, gltf_path, output_path, program>>

\* n byte order marks and then the text
RECURSIVE Marked(_, _)
Marked(n, text) == IF n = 0 THEN text ELSE [bom |-> Marked(n - 1, text)]

\* the start of fix of GLTFBoneFixer and of GLTFAnimationFixer, once
\* __init__ has seen that gltf_path exists: the file holds a document of the
\* fixer's kind or text that does not parse, after at most two byte order
\* marks; the buffer file of a document with accessors is there or not
InitLoad ==
    /\ \E marks \in 0..2, parses \in BOOLEAN :
           \/ \E n \in 0..(MaxNodes - 1) :
                  \E cls \in ChildrenLists(n, MaxNodes - 1, 0..(n - 1)) :
                      /\ program = "fix_gltf_bone_order"
                      /\ files = write_file(<<>>, ModelPath,
                             Marked(marks, IF parses
                                           THEN [json |-> MkDoc(MkNodes(cls), <<>>, <<>>, <<>>)]
                                           ELSE [text |-> "{"]))
           \/ \E words \in SeqsUpTo(FloatWords, MaxWords - 2), count \in 1..MaxCount,
                 there \in BOOLEAN :
                  LET doc == MkJson(<<MkAccessor(0, 0, 5126, count, "SCALAR",
                                                 <<DBL_MAX>>, <<NumNeg(DBL_MAX)>>)>>,
                                    <<MkView(0, 0)>>, <<<<0>>>>)
                      document == Marked(marks, IF parses THEN [json |-> doc]
                                                ELSE [text |-> "{"])
                      with_document == write_file(<<>>, ModelPath, document)
                  IN  /\ program = "fix_gltf_animation_timing"
                      /\ files = IF there
                                 THEN write_file(with_document,
                                                 Join(ModelPath, doc.buffers[1].uri),
                                                 [bytes |-> Flatten(words)])
                                 ELSE with_document
    /\ gltf_path = ModelPath
    /\ output_path = NoPath
    /\ bin_path = NoPath
    /\ loading = LoadingIdle
    /\ gltf_data = None
    /\ reordered = FALSE
    /\ warned = {}
    /\ dfs = DfsIdle
    /\ gltf_json = None
    /\ bin_data = <<>>
    /\ fixes_applied = <<>>
    /\ issues_found = <<>>
    /\ bin_data_modified = FALSE
    /\ fixed_count = 0
    /\ raised = "none"
    /\ last = "init"
    /\ prev = "init"
    /\ pre = AccessorSnapshot

NextLoad ==
    \/ load_gltf_begin
    \/ load_gltf_try
    \/ load_gltf_except
    \/ load_gltf_end

SpecLoad == InitLoad /\ [][NextLoad]_vars

\* ---------------------------------------------------- shapes of node lists
Idx(nodes) == 0..(Len(nodes) - 1)

ChildSet(nodes, i) == Elems(At(nodes, i).children)

InRange(nodes) == \A i \in Idx(nodes) : ChildSet(nodes, i) \subseteq Idx(nodes)

EdgesForward(nodes) == \A i \in Idx(nodes) : \A c \in ChildSet(nodes, i) : i < c

RECURSIVE Closure(_, _, _)
Closure(nodes, S, k) ==
    IF k = 0 THEN S
    ELSE Closure(nodes,
             S \cup UNION {ChildSet(nodes, j) \cap Idx(nodes) : j \in S}, k - 1)

\* the nodes reached from i over one or more child edges
Descendants(nodes, i) ==
    Closure(nodes, ChildSet(nodes, i) \cap Idx(nodes), Len(nodes))

Acyclic(nodes) == \A i \in Idx(nodes) : i \notin Descendants(nodes, i)

SingleParent(nodes) ==
    \A c \in Idx(nodes) :
        Cardinality({i \in Idx(nodes) : c \in ChildSet(nodes, i)}) <= 1

\* a forest: every child index in range, no node the child of two nodes, no
\* cycle and no self-reference
IsForest(nodes) == InRange(nodes) /\ SingleParent(nodes) /\ Acyclic(nodes)

NodeIds(nodes) == [k \in 1..Len(nodes) |-> nodes[k].id]

IsPermutationOf(s, n) == Len(s) = n /\ Elems(s) = 0..(n - 1)

Returned(op) == last = op /\ raised = "none"

\* ------------------------------------------------------------------ claims
\* C1 (as stated): after fix_node_hierarchy returns on any node list whose
\* child indices are all in range, every parent->child edge of the repaired
\* list has parent index < child index.
C1_AnyInRangeListForward ==
    (Returned("fix_node_hierarchy") /\ InRange(pre.data.nodes))
        => EdgesForward(gltf_data.nodes)

\* C1 (amended): after fix_node_hierarchy returns on a node list that is a
\* forest, every parent->child edge of the repaired list has parent index <
\* child index.
C1_ForestForward ==
    (Returned("fix_node_hierarchy") /\ IsForest(pre.data.nodes))
        => EdgesForward(gltf_data.nodes)

\* a forest with a child stored before its parent has been reordered
C1_Witness ==
    /\ Returned("fix_node_hierarchy")
    /\ IsForest(pre.data.nodes)
    /\ ~EdgesForward(pre.data.nodes)
    /\ Len(pre.data.nodes) = MaxNodes
    /\ NodeIds(gltf_data.nodes) # NodeIds(pre.data.nodes)

\* C2: the node-order pass never drops or duplicates a node: on every input
\* node list it returns, sorted_indices is a permutation of 0..len(nodes)-1
\* and the repaired list holds exactly the node objects of the input.
C2_NoNodeDroppedOrDuplicated ==
    (last = "fix_node_hierarchy" /\ needs_reorder_nodes(pre.data.nodes))
        => /\ raised = "none"
           /\ IsPermutationOf(sorted_indices_of(pre.data.nodes), Len(pre.data.nodes))
           /\ Len(gltf_data.nodes) = Len(pre.data.nodes)
           /\ Elems(NodeIds(gltf_data.nodes)) = Elems(NodeIds(pre.data.nodes))

\* the node object a reference r into the node list stands for
Obj(nodes, r) == IF r = NoRef THEN NoRef ELSE At(nodes, r).id

SameObjs(refs1, nodes1, refs0, nodes0) ==
    /\ Len(refs1) = Len(refs0)
    /\ \A k \in 1..Len(refs0) : Obj(nodes1, refs1[k]) = Obj(nodes0, refs0[k])

\* the node object with the given id
NodeOf(nodes, id) == nodes[CHOOSE k \in 1..Len(nodes) : nodes[k].id = id]

\* C3: when the node-order pass reorders, every entry of every node's
\* children list, every scene's nodes list, every skin's joints list and
\* skeleton and every animation channel's target node refers, after the
\* pass, to the node object it referred to before the pass.
C3_ReferencesFollowNodes ==
    (Returned("fix_node_hierarchy") /\ needs_reorder_nodes(pre.data.nodes)) =>
        LET old == pre.data
            new == gltf_data
        IN  /\ \A k \in 1..Len(old.nodes) :
                   SameObjs(NodeOf(new.nodes, old.nodes[k].id).children, new.nodes,
                            old.nodes[k].children, old.nodes)
            /\ Len(new.scenes) = Len(old.scenes)
            /\ \A k \in 1..Len(old.scenes) :
                   SameObjs(new.scenes[k], new.nodes, old.scenes[k], old.nodes)
            /\ Len(new.skins) = Len(old.skins)
            /\ \A k \in 1..Len(old.skins) :
                   /\ SameObjs(new.skins[k].joints, new.nodes,
                               old.skins[k].joints, old.nodes)
                   /\ Obj(new.nodes, new.skins[k].skeleton)
                          = Obj(old.nodes, old.skins[k].skeleton)
            /\ Len(new.animations) = Len(old.animations)
            /\ \A k \in 1..Len(old.animations) :
                   SameObjs(new.animations[k], new.nodes,
                            old.animations[k], old.nodes)

\* a reordering pass has moved a node that a skin's skeleton refers to
C3_Witness ==
    /\ Returned("fix_node_hierarchy")
    /\ NodeIds(gltf_data.nodes) # NodeIds(pre.data.nodes)
    /\ \E k \in 1..Len(gltf_data.skins) :
           /\ pre.data.skins[k].skeleton # NoRef
           /\ gltf_data.skins[k].skeleton # pre.data.skins[k].skeleton
           /\ gltf_data.skins[k].joints # pre.data.skins[k].joints

\* positions a, b of one joints list with the joint at a a child of the joint at b
ParentJointPairs(joints, nodes) ==
    {p \in (1..Len(joints)) \X (1..Len(joints)) :
        /\ joints[p[2]] \in Idx(nodes)
        /\ joints[p[1]] \in ChildSet(nodes, joints[p[2]])}

\* positions a, b with the joint at b a proper ancestor of the joint at a
AncestorJointPairs(joints, nodes) ==
    {p \in (1..Len(joints)) \X (1..Len(joints)) :
        /\ joints[p[2]] \in Idx(nodes)
        /\ joints[p[1]] \in Descendants(nodes, joints[p[2]])}

\* C4 (as stated, on a node hierarchy that is a forest): after fix_bone_order
\* returns, in every skin's joints list each joint appears later than every
\* one of its ancestors that is a joint of the skin too, also an ancestor
\* reached through nodes that are not joints.
C4_AfterEveryAncestorJoint ==
    (Returned("fix_bone_order") /\ IsForest(gltf_data.nodes)) =>
        \A k \in 1..Len(gltf_data.skins) :
            \A p \in AncestorJointPairs(gltf_data.skins[k].joints, gltf_data.nodes) :
                p[2] < p[1]

\* C4 (amended): after fix_bone_order returns on a forest, in every skin's
\* joints list each joint appears later than its parent node when the parent
\* is a joint of the skin too.
C4_AfterParentJoint ==
    (Returned("fix_bone_order") /\ IsForest(gltf_data.nodes)) =>
        \A k \in 1..Len(gltf_data.skins) :
            \A p \in ParentJointPairs(gltf_data.skins[k].joints, gltf_data.nodes) :
                p[2] < p[1]

\* the pass has reordered a skin of three joints chained parent to child
C4_Witness ==
    /\ Returned("fix_bone_order")
    /\ IsForest(gltf_data.nodes)
    /\ \E k \in 1..Len(gltf_data.skins) :
           /\ gltf_data.skins[k].joints # pre.data.skins[k].joints
           /\ Len(gltf_data.skins[k].joints) = MaxNodes
           /\ Cardinality(ParentJointPairs(gltf_data.skins[k].joints,
                                           gltf_data.nodes)) >= 2

\* some node of the list has a child with a lower index than its own
HasLowerChild(nodes) ==
    \E i \in Idx(nodes) :
        \E k \in 1..Len(At(nodes, i).children) : At(nodes, i).children[k] < i

\* C5: each hierarchy pass is idempotent: a second fix_node_hierarchy right
\* after the first leaves the node list and every index reference as the
\* first left them, and a second fix_bone_order right after the first leaves
\* every skin's joints list as the first left it.
C5_PassesIdempotent ==
    /\ (Returned("fix_node_hierarchy") /\ prev = "fix_node_hierarchy")
           => gltf_data = pre.data
    /\ (Returned("fix_bone_order") /\ prev = "fix_bone_order")
           => /\ Len(gltf_data.skins) = Len(pre.data.skins)
              /\ \A k \in 1..Len(gltf_data.skins) :
                     gltf_data.skins[k].joints = pre.data.skins[k].joints

\* the node pass ran twice: the first run reordered a list that cannot be put
\* in order (the second run sorts again) and the second changed nothing
C5_Witness ==
    /\ Returned("fix_node_hierarchy")
    /\ prev = "fix_node_hierarchy"
    /\ reordered
    /\ HasLowerChild(pre.data.nodes)
    /\ Len(gltf_data.nodes) = MaxNodes

\* C6: on a node list in which no node has a child with a lower index,
\* fix_node_hierarchy changes nothing (nodes, children, scenes, skins and
\* channel targets) and does not set the reordered flag.
C6_SortedListUntouched ==
    (last = "fix_node_hierarchy" /\ ~HasLowerChild(pre.data.nodes))
        => /\ raised = "none"
           /\ gltf_data = pre.data
           /\ reordered = pre.reordered
           /\ warned = pre.warned

\* the first pass over a sorted list that has edges and a scene
C6_Witness ==
    /\ last = "fix_node_hierarchy"
    /\ prev = "load_gltf"
    /\ ~HasLowerChild(pre.data.nodes)
    /\ \E i \in Idx(pre.data.nodes) : ChildSet(pre.data.nodes, i) # {}
    /\ pre.data.scenes # <<>>
    /\ reordered = FALSE

\* no joint of the list is positioned before a joint it is a child of
NoJointBeforeParent(joints, nodes) ==
    \A p \in ParentJointPairs(joints, nodes) : ~(p[1] < p[2])

\* C7: when in a skin's joints list no joint is positioned before its parent
\* joint, fix_bone_order reports no issue for the skin and leaves its joints
\* list unchanged, and the skin does not set the reordered flag.
C7_OrderedJointsUntouched ==
    Returned("fix_bone_order") =>
        /\ \A k \in 1..Len(pre.data.skins) :
               NoJointBeforeParent(pre.data.skins[k].joints, pre.data.nodes)
                   => gltf_data.skins[k].joints = pre.data.skins[k].joints
        /\ (\A k \in 1..Len(pre.data.skins) :
               NoJointBeforeParent(pre.data.skins[k].joints, pre.data.nodes))
               => (reordered = pre.reordered /\ warned = pre.warned)

\* the scenario of the claim on three nodes: joints [1, 0, 2] with node 1 the
\* parent of node 0 and node 0 the parent of node 2
C7_Witness ==
    /\ Returned("fix_bone_order")
    /\ prev = "load_gltf"
    /\ Len(pre.data.nodes) = 3
    /\ pre.data.nodes[2].children = <<0>>
    /\ pre.data.nodes[1].children = <<2>>
    /\ Len(pre.data.skins) = 1
    /\ pre.data.skins[1].joints = <<1, 0, 2>>
    /\ reordered = FALSE

\* every reference of the document into the node list is in range
RefsInRange(d) ==
    /\ InRange(d.nodes)
    /\ \A k \in 1..Len(d.scenes) : Elems(d.scenes[k]) \subseteq Idx(d.nodes)
    /\ \A k \in 1..Len(d.skins) :
           /\ Elems(d.skins[k].joints) \subseteq Idx(d.nodes)
           /\ d.skins[k].skeleton \in Idx(d.nodes) \cup {NoRef}
    /\ \A k \in 1..Len(d.animations) :
           Elems(d.animations[k]) \subseteq Idx(d.nodes) \cup {NoRef}

\* the nodes that lie on a cycle of the child graph
OnCycle(nodes) == {i \in Idx(nodes) : i \in Descendants(nodes, i)}

\* the parent->child edges of the list that do not go to a higher index
BackwardEdges(nodes) ==
    {e \in Idx(nodes) \X Idx(nodes) : e[2] \in ChildSet(nodes, e[1]) /\ e[2] <= e[1]}

\* the edge closes a cycle: its parent is its child or below its child
CyclicEdge(nodes, e) == e[1] = e[2] \/ e[1] \in Descendants(nodes, e[2])

\* C9: on a node list whose child graph contains a cycle the node-order pass
\* completes without raising, records an issue for the cyclic edge (at the
\* least it reports something about a node that lies on a cycle) and fails
\* only that edge: every edge left out of order closes a cycle.
C9_CycleReported ==
    (last = "fix_node_hierarchy" /\ prev = "load_gltf"
        /\ RefsInRange(pre.data) /\ OnCycle(pre.data.nodes) # {})
        => /\ raised = "none"
           /\ \E w \in warned : w.node \in OnCycle(pre.data.nodes)
           /\ \A e \in BackwardEdges(gltf_data.nodes) : CyclicEdge(gltf_data.nodes, e)

\* the traversal has ended with the result the sort functions compute
DfsAgreesWithSort ==
    dfs.pc = "done" =>
        dfs.sorted = IF gltf_data.skins = <<>>
                     THEN sorted_indices_of(gltf_data.nodes)
                     ELSE topological_sort_joints(gltf_data.skins[1].joints,
                                                  gltf_data.nodes)

\* no call of dfs has passed the visited test twice for one node
ExpandedAtMostOnce == NoDup(dfs.expansions)

\* the call stack is never deeper than the nodes met plus the returning call
DepthWithinNodes == Len(dfs.stack) <= Cardinality(dfs.visited) + 1

\* C8: the depth-first traversals of topological_sort_nodes and of
\* topological_sort_joints terminate on every finite node list, cycles and
\* self-referencing children included, and expand each node at most once.
C8_TraversalsTerminate ==
    /\ [](ExpandedAtMostOnce /\ DepthWithinNodes)
    /\ <>(dfs.pc = "done")

\* a traversal has ended that came back to a node of a cycle it had expanded
C8_Witness ==
    /\ dfs.pc = "done"
    /\ Len(gltf_data.nodes) = MaxNodes
    /\ \E i \in Idx(gltf_data.nodes) : i \in ChildSet(gltf_data.nodes, i)
    /\ OnCycle(gltf_data.nodes) \cap dfs.visited # {}

\* the byte position of component j of element k of an accessor (both from
\* 0): elements a stride apart from the view's offset plus the accessor's,
\* the stride the view's byteStride or else the size of an element
ElementPos(json, accessor, k, j) ==
    LET view == At(json.bufferViews, accessor.bufferView)
        stride == IF view.byteStride # 0 THEN view.byteStride
                  ELSE 4 * TYPE_SIZES_get(accessor.type)
    IN  view.byteOffset + accessor.byteOffset + k * stride + j * 4

\* component j of each of the count elements of a float accessor, decoded
ComponentValues(json, data, accessor, j) ==
    [k \in 1..accessor.count |->
        unpack_float(data, ElementPos(json, accessor, k - 1, j))]

\* the accessor has elements of floats, all inside the buffer, every
\* component of every element finite and no larger than 10000 in magnitude
RawDataValid(json, data, accessor) ==
    /\ accessor.componentType = 5126
    /\ accessor.bufferView \in 0..(Len(json.bufferViews) - 1)
    /\ accessor.count >= 1
    /\ \A k \in 0..(accessor.count - 1) :
           \A j \in 0..(TYPE_SIZES_get(accessor.type) - 1) :
               /\ ElementPos(json, accessor, k, j) + 4 <= Len(data)
               /\ LET v == unpack_float(data, ElementPos(json, accessor, k, j))
                  IN  ~IsNaN(v) /\ ~IsInf(v) /\ ~NumLt(IntNum(10000), NumAbs(v))

\* accessor a has, per component, the least and the largest of the values
\* its elements had before the last method ran
BoundsExact(a) ==
    LET before == At(pre.json.accessors, a)
        after == At(gltf_json.accessors, a)
        n == TYPE_SIZES_get(before.type)
    IN  /\ after.min = [c \in 1..n |->
                           PyMin(ComponentValues(pre.json, pre.bin, before, c - 1))]
        /\ after.max = [c \in 1..n |->
                           PyMax(ComponentValues(pre.json, pre.bin, before, c - 1))]

FlaggedSpatial(accessor) ==
    accessor.min # <<>> /\ accessor.max # <<>> /\ is_extreme(accessor.min \o accessor.max)

FlaggedTiming(accessor) ==
    is_corrupted(first_or_zero(accessor.min), first_or_zero(accessor.max))

FlaggedTimingOld(accessor) ==
    \/ ExceedsE100(first_or_zero(accessor.min))
    \/ ExceedsE100(first_or_zero(accessor.max))
    \/ NumLt(first_or_zero(accessor.max), first_or_zero(accessor.min))

\* the test the method applies to the bounds of an accessor
Flagged(method, accessor) ==
    CASE method = "fix_extreme_coordinates" -> FlaggedSpatial(accessor)
      [] method = "fix_animation_timing" -> FlaggedTiming(accessor)
      [] method = "fix_animation_accessors" -> FlaggedTimingOld(accessor)

\* the accessors of S the method found with flagged bounds over valid data
FlaggedValid(S, method) ==
    {a \in S \cap 0..(Len(pre.json.accessors) - 1) :
        /\ Flagged(method, At(pre.json.accessors, a))
        /\ RawDataValid(pre.json, pre.bin, At(pre.json.accessors, a))}

ExtremeBoundsExact ==
    (last = "fix_extreme_coordinates" /\ raised = "none") =>
        \A a \in FlaggedValid(0..(Len(pre.json.accessors) - 1), "fix_extreme_coordinates") :
            BoundsExact(a)

TimingBoundsExact ==
    (last = "fix_animation_timing" /\ raised = "none") =>
        \A a \in FlaggedValid(input_accessors(pre.json.animations), "fix_animation_timing") :
            BoundsExact(a)

OldTimingBoundsExact ==
    (last = "fix_animation_accessors" /\ raised = "none") =>
        \A a \in FlaggedValid(input_accessors(pre.json.animations), "fix_animation_accessors") :
            BoundsExact(a)

\* C10: for every accessor whose min/max are flagged as corrupted and whose
\* raw data is valid, the repair (fix_extreme_coordinates, fix_animation_timing,
\* fix_animation_accessors) sets min[c] and max[c], for each component c, to
\* the minimum and the maximum of component c over all count decoded elements.
C10_BoundsRecomputedExactly ==
    /\ ExtremeBoundsExact
    /\ TimingBoundsExact
    /\ OldTimingBoundsExact

\* the accessor is a timing accessor of floats whose count samples all lie
\* inside the buffer
SamplesInside(json, data, accessor) ==
    /\ accessor.componentType = 5126
    /\ accessor.type = "SCALAR"
    /\ accessor.bufferView \in 0..(Len(json.bufferViews) - 1)
    /\ accessor.count >= 1
    /\ \A k \in 0..(accessor.count - 1) :
           ElementPos(json, accessor, k, 0) + 4 <= Len(data)

\* every one of the count samples of the accessor is NaN or infinite
AllSamplesCorrupted(json, data, accessor) ==
    /\ SamplesInside(json, data, accessor)
    /\ \A k \in 0..(accessor.count - 1) :
           LET v == unpack_float(data, ElementPos(json, accessor, k, 0))
           IN  IsNaN(v) \/ IsInf(v)

\* accessor a holds the regenerated timeline: sample i, at the accessor's
\* offset and stride, is i/30 as a 32-bit float, min is [0] and max is
\* [(count - 1)/30]
TimelineRegenerated(a) ==
    LET before == At(pre.json.accessors, a)
        after == At(gltf_json.accessors, a)
    IN  /\ \A i \in 0..(before.count - 1) :
               unpack_float(bin_data, ElementPos(pre.json, before, i, 0))
                   = <<float32_key(frame_time_multiple(i)), 0>>
        /\ after.min = <<IntNum(0)>>
        /\ after.max = <<frame_time_multiple(before.count - 1)>>

\* the sampler inputs the method found with flagged bounds over samples
\* that are all corrupted
FlaggedCorrupted(method) ==
    {a \in input_accessors(pre.json.animations) \cap 0..(Len(pre.json.accessors) - 1) :
        /\ Flagged(method, At(pre.json.accessors, a))
        /\ AllSamplesCorrupted(pre.json, pre.bin, At(pre.json.accessors, a))}

TimingRegenerated ==
    (last = "fix_animation_timing" /\ raised = "none") =>
        \A a \in FlaggedCorrupted("fix_animation_timing") : TimelineRegenerated(a)

OldTimingRegenerated ==
    (last = "fix_animation_accessors" /\ raised = "none") =>
        \A a \in FlaggedCorrupted("fix_animation_accessors") : TimelineRegenerated(a)

\* C11: for every timing accessor with corrupted bounds and corrupted raw
\* samples, after the repair (fix_animation_timing, fix_animation_accessors)
\* the buffer holds, at the accessor's offset and stride, exactly count
\* samples t[i] = i/30, and the accessor has min = [0], max = [(count - 1)/30].
C11_TimelineRegenerated ==
    /\ TimingRegenerated
    /\ OldTimingRegenerated

\* the accessor has elements of floats, all inside the buffer, and some
\* component of some element is NaN, infinite or beyond 10000 in magnitude
RawDataImplausible(json, data, accessor) ==
    /\ accessor.componentType = 5126
    /\ accessor.bufferView \in 0..(Len(json.bufferViews) - 1)
    /\ accessor.count >= 1
    /\ \A k \in 0..(accessor.count - 1) :
           \A j \in 0..(TYPE_SIZES_get(accessor.type) - 1) :
               ElementPos(json, accessor, k, j) + 4 <= Len(data)
    /\ \E k \in 0..(accessor.count - 1) :
           \E j \in 0..(TYPE_SIZES_get(accessor.type) - 1) :
               LET v == unpack_float(data, ElementPos(json, accessor, k, j))
               IN  IsNaN(v) \/ IsInf(v) \/ NumLt(IntNum(10000), NumAbs(v))

\* the accessors fix_extreme_coordinates found with flagged bounds over
\* implausible data
FlaggedImplausible ==
    {a \in 0..(Len(pre.json.accessors) - 1) :
        /\ FlaggedSpatial(At(pre.json.accessors, a))
        /\ RawDataImplausible(pre.json, pre.bin, At(pre.json.accessors, a))}

\* C12: for a float accessor with implausible min/max whose raw data is
\* itself corrupted (any NaN, any infinity, any component beyond 10000 in
\* magnitude), fix_extreme_coordinates synthesizes nothing: min/max and the
\* buffer are left as they were and an entry is appended to issues_found.
C12_CorruptedDataReported ==
    (last = "fix_extreme_coordinates" /\ raised = "none") =>
        /\ bin_data = pre.bin
        /\ \A a \in FlaggedImplausible :
               /\ At(gltf_json.accessors, a) = At(pre.json.accessors, a)
               /\ [issue |-> "extreme", accessor |-> a] \in Elems(issues_found)
               /\ Len(issues_found) > Len(pre.issues)

\* fix_all has come to its end and returns True
FixAllReturnedTrue ==
    last = "print_report" /\ raised = "none" /\ issues_found = <<>>

\* some component of the bounds is NaN, infinite or beyond 10000 in magnitude
ImplausibleBounds(accessor) ==
    \E v \in Elems(accessor.min) \cup Elems(accessor.max) :
        IsNaN(v) \/ IsInf(v) \/ NumLt(IntNum(10000), NumAbs(v))

\* the sampler inputs of the document that are accessors of it
TimingAccessors(json) ==
    input_accessors(json.animations) \cap 0..(Len(json.accessors) - 1)

\* C13: whenever fix_all returns True (issues_found is empty), no sampler
\* input accessor still satisfies the timing corruption predicate and no
\* float accessor still has a min/max component that is NaN, infinite or
\* beyond 10000 in magnitude.
C13_TrueMeansRepaired ==
    FixAllReturnedTrue =>
        /\ \A a \in TimingAccessors(gltf_json) :
               ~FlaggedTiming(At(gltf_json.accessors, a))
        /\ \A a \in 0..(Len(gltf_json.accessors) - 1) :
               At(gltf_json.accessors, a).componentType = 5126
                   => ~ImplausibleBounds(At(gltf_json.accessors, a))

\* the sampler inputs of the document that are past the end of its accessors
InputsPastEnd(json) ==
    {a \in input_accessors(json.animations) : a >= Len(json.accessors)}

\* C14: a failure while repairing one accessor (a sampler input index past
\* the end of accessors, a bufferView index out of range, a write past the
\* end of the buffer) is caught and recorded and never aborts the pass
\* (fix_animation_timing, fix_animation_accessors): no exception leaves it,
\* and fix_all still reaches its final report.
C14_FailuresCaught ==
    /\ raised = "none"
    /\ (last = "fix_animation_timing" /\ InputsPastEnd(pre.json) # {})
           => Len(issues_found) > Len(pre.issues)

\* the accessor a sampler names, by the [anim, sampler] of a fix record
SamplerAccessor(json, at) ==
    At(json.accessors, At(json.animations[at.anim + 1], at.sampler))

\* the records fix_animation_timing has left of timelines it has written
RegeneratedRecords ==
    {fixes_applied[k] : k \in (Len(pre.fixes) + 1)..Len(fixes_applied)}
        \cap {[fix |-> "regenerated", at |-> [anim |-> a, sampler |-> s]] :
                 a \in 0..(Len(pre.json.animations) - 1), s \in 0..MaxCount}

\* the first byte after the count samples fix_animation_timing writes
TimesEnd(json, accessor) ==
    At(json.bufferViews, accessor.bufferView).byteOffset + accessor.byteOffset
        + 4 * accessor.count

\* the timing accessors of the document that have a buffer view
ViewedTimingAccessors(json) ==
    {a \in TimingAccessors(json) :
        At(json.accessors, a).bufferView \in 0..(Len(json.bufferViews) - 1)}

\* those of floats, the only ones fix_animation_accessors writes to
WritableTimingAccessors(json) ==
    {a \in ViewedTimingAccessors(json) : At(json.accessors, a).componentType = 5126}

\* one of the count values written to the accessor would end past the buffer:
\* value v is component v % size of element v \div size
EndsPastBuffer(json, data, accessor) ==
    \E v \in 0..(accessor.count - 1) :
        LET size == TYPE_SIZES_get(accessor.type)
        IN  ElementPos(json, accessor, v \div size, v % size) + 4 > Len(data)

Timeline(count) == [k \in 1..count |-> frame_time_multiple(k - 1)]

\* C16: no repair operation ever changes the length of the buffer, and a
\* write of accessor values whose last component would end past the end of
\* the buffer fails instead of growing the buffer: fix_animation_timing
\* records a regenerated timeline only when all of it is inside the buffer
\* and raises otherwise, write_accessor_data returns False.
C16_BufferLengthKept ==
    /\ Len(bin_data) = Len(pre.bin)
    /\ last = "fix_animation_timing" =>
           /\ \A r \in RegeneratedRecords :
                  TimesEnd(pre.json, SamplerAccessor(pre.json, r.at)) <= Len(pre.bin)
           /\ raised = "struct.error" =>
                  \E a \in ViewedTimingAccessors(pre.json) :
                      TimesEnd(pre.json, At(pre.json.accessors, a)) > Len(pre.bin)
    /\ last = "fix_animation_accessors" =>
           \A a \in WritableTimingAccessors(pre.json) :
               LET accessor == At(pre.json.accessors, a)
                   w == write_accessor_data(pre.json, pre.bin, a,
                                            Timeline(accessor.count))
               IN  /\ Len(w.data) = Len(pre.bin)
                   /\ w.ok = ~EndsPastBuffer(pre.json, pre.bin, accessor)

\* fix_animation_accessors has written the first samples of a timeline and
\* has been refused the rest, which lie past the end of the buffer
C16_Witness ==
    /\ last = "fix_animation_accessors"
    /\ raised = "none"
    /\ bin_data # pre.bin
    /\ ~bin_data_modified
    /\ \E a \in WritableTimingAccessors(pre.json) :
           EndsPastBuffer(pre.json, pre.bin, At(pre.json.accessors, a))

\* the view tells its byteLength and the last element of the accessor ends
\* past it
ExtentExceedsView(json, accessor) ==
    /\ accessor.bufferView \in 0..(Len(json.bufferViews) - 1)
    /\ accessor.count >= 1
    /\ LET view == At(json.bufferViews, accessor.bufferView)
       IN  /\ view.byteLength # 0
           /\ ElementPos(json, accessor, accessor.count - 1,
                         TYPE_SIZES_get(accessor.type) - 1) + 4
                  - view.byteOffset > view.byteLength

\* the accessors the method that ran last examines
Examined(method) ==
    IF method = "fix_extreme_coordinates" THEN 0..(Len(pre.json.accessors) - 1)
    ELSE TimingAccessors(pre.json)

\* C17: an accessor whose extent exceeds the byte length of its buffer view
\* is treated as a fatal structural error, never silently tolerated: no
\* repair (fix_animation_timing, fix_extreme_coordinates,
\* fix_animation_accessors) computes bounds for it from the values it could
\* read.
C17_ExtentBeyondViewFatal ==
    last \in {"fix_animation_timing", "fix_extreme_coordinates",
              "fix_animation_accessors"} =>
        \A a \in Examined(last) :
            (/\ At(pre.json.accessors, a).componentType = 5126
             /\ Flagged(last, At(pre.json.accessors, a))
             /\ ExtentExceedsView(pre.json, At(pre.json.accessors, a)))
                => At(gltf_json.accessors, a) = At(pre.json.accessors, a)

\* the accessor has elements of floats, every component of every element
\* inside the buffer
AllInside(json, data, accessor) ==
    /\ accessor.componentType = 5126
    /\ accessor.bufferView \in 0..(Len(json.bufferViews) - 1)
    /\ \A k \in 0..(accessor.count - 1) :
           \A j \in 0..(TYPE_SIZES_get(accessor.type) - 1) :
               ElementPos(json, accessor, k, j) + 4 <= Len(data)

\* the values of the accessor, element after element and within an element
\* component after component, each decoded where the stride puts it
ReferenceValues(json, data, accessor) ==
    LET n == TYPE_SIZES_get(accessor.type)
    IN  [v \in 1..(accessor.count * n) |->
            unpack_float(data, ElementPos(json, accessor, (v - 1) \div n, (v - 1) % n))]

\* where fix_animation_timing and fix_extreme_coordinates start to read
DaybreakOffset(json, accessor) ==
    At(json.bufferViews, accessor.bufferView).byteOffset + accessor.byteOffset

\* the values fix_extreme_coordinates reads, put in the order of elements
ExtremeValues(json, data, accessor) ==
    LET n == TYPE_SIZES_get(accessor.type)
        byte_offset == DaybreakOffset(json, accessor)
    IN  [v \in 1..(accessor.count * n) |->
            LET column == comp_values(data, byte_offset, type_sizes_get(accessor.type),
                                      (v - 1) % n, accessor.count)
                k == (v - 1) \div n
            IN  IF k + 1 \in DOMAIN column THEN column[k + 1] ELSE <<>>]

\* the values the method that ran last reads of an accessor
ValuesRead(method, json, data, a) ==
    LET accessor == At(json.accessors, a)
    IN  CASE method = "fix_animation_accessors" -> read_accessor_data(json, data, a)
          [] method = "fix_animation_timing" ->
                 ReadWhile(data, DaybreakOffset(json, accessor), 4, 0, accessor.count)
          [] method = "fix_extreme_coordinates" -> ExtremeValues(json, data, accessor)

\* C18: reading an accessor (read_accessor_data, and the reads of
\* fix_animation_timing and of fix_extreme_coordinates) returns its values in
\* element-then-component order respecting the stride: value k*n + j is
\* decoded at bufferView.byteOffset + accessor.byteOffset + k*stride + 4 j,
\* stride the view's byteStride or else the element's size, count*n values
\* when all lie inside the buffer.
C18_ReadsFollowStride ==
    last \in {"fix_animation_timing", "fix_extreme_coordinates",
              "fix_animation_accessors"} =>
        \A a \in Examined(last) :
            (/\ Flagged(last, At(pre.json.accessors, a))
             /\ AllInside(pre.json, pre.bin, At(pre.json.accessors, a))
             /\ last = "fix_animation_timing" => At(pre.json.accessors, a).type = "SCALAR")
                => ValuesRead(last, pre.json, pre.bin, a)
                       = ReferenceValues(pre.json, pre.bin, At(pre.json.accessors, a))

\* save or save_gltf has ended, by a return or by an exception, in a run
\* that has loaded its document
Saved == last \in {"save", "save_gltf"} /\ gltf_json # None

\* the path the method that ended has written the document to
SavedOutput == IF last = "save" THEN save_output_path ELSE save_gltf_output_path

\* the buffer file the document in memory names, next to the output
SavedBuffer == Join(SavedOutput, gltf_json.buffers[1].uri)

\* the method had buffer bytes to write: save writes them when there are
\* any, save_gltf when they have been modified
BufferDue == IF last = "save" THEN bin_data # <<>> ELSE bin_data_modified

\* C15: save (save, save_gltf) is all-or-nothing: either the corrected
\* document and the buffer are both written, or an exception reaches the
\* caller and no file has been overwritten; the JSON is never replaced while
\* the buffer it references has not been written.
C15_SaveAllOrNothing ==
    Saved =>
        IF raised = "none"
        THEN /\ exists(SavedOutput)
             /\ files[SavedOutput] = [json |-> gltf_json]
             /\ BufferDue =>
                    /\ exists(SavedBuffer)
                    /\ files[SavedBuffer] = [bytes |-> bin_data]
        ELSE files = pre.files

\* load or load_gltf has looked for the buffer file that buffers[0].uri
\* names and it is not there, in a run where no path is a directory
BufferFileMissing ==
    /\ last \notin {"init", "clean_up"}
    /\ bin_path # NoPath
    /\ ~exists(bin_path)
    /\ \A p \in DOMAIN files : ~is_dir(p)

\* C19: when the buffer file named by buffers[0].uri does not exist, loading
\* (load, load_gltf) succeeds with an empty buffer and the whole run goes on
\* without raising; the repairs, which need buffer data, leave the accessors
\* as they were loaded.
C19_MissingBufferTolerated ==
    BufferFileMissing =>
        /\ raised = "none"
        /\ last # "load_failed"
        /\ bin_data = <<>>
        /\ last \in {"load", "fix_animation_timing", "fix_extreme_coordinates",
                     "validate_structure", "print_report", "fix_animation_accessors"}
               => gltf_json.accessors = files[gltf_path].json.accessors

\* C20: save (save, save_gltf) writes the buffer under a fresh file name:
\* the file it writes the buffer bytes to is never the buffer file the run
\* has loaded, which is after the save as it was before.
C20_LoadedBufferNotOverwritten ==
    (last \in {"save", "save_gltf"} /\ bin_path \in DOMAIN pre.files) =>
        /\ exists(bin_path)
        /\ files[bin_path] = pre.files[bin_path]

\* the sampler inputs fix_animation_accessors found with flagged bounds and
\* a component type that COMPONENT_TYPES does not know
FlaggedUnknownType ==
    {a \in TimingAccessors(pre.json) :
        /\ FlaggedTimingOld(At(pre.json.accessors, a))
        /\ At(pre.json.accessors, a).bufferView \in 0..(Len(pre.json.bufferViews) - 1)
        /\ component_size(At(pre.json.accessors, a).componentType) = 0}

\* C21: an accessor with an unknown component type is skipped with a
\* recorded issue: after fix_animation_accessors its min/max are as they
\* were, the buffer is as it was when no other accessor is repaired, and the
\* issue is among the issues the fixer holds, not only in the log.
C21_UnknownTypeRecorded ==
    (last = "fix_animation_accessors" /\ raised = "none") =>
        \A a \in FlaggedUnknownType :
            /\ At(gltf_json.accessors, a) = At(pre.json.accessors, a)
            /\ TimingAccessors(pre.json) = {a} => bin_data = pre.bin
            /\ Len(issues_found) > Len(pre.issues)

\* the document load_gltf has kept
LoadedDocument == IF program = "fix_gltf_bone_order" THEN gltf_data ELSE gltf_json

\* the file at gltf_path parses when it is read in the encoding
ParsesIn(encoding) == json_parses(decode(files[gltf_path], encoding))

\* C22: load_gltf tries the fixed list of encodings in order and stops at
\* the first attempt that decodes and parses: the encodings tried so far are
\* the first ones of utf-8, utf-8-sig, latin-1, cp1252 in that order, no
\* encoding is tried after one that has parsed, the document kept is the one
\* parsed in the encoding tried last, and JSONDecodeError reaches the caller
\* only when all four have been tried and have failed.
C22_EncodingsInOrder ==
    /\ Len(loading.tried) <= Len(encodings)
    /\ \A k \in 1..Len(loading.tried) : loading.tried[k] = encodings[k]
    /\ \A k \in 1..(Len(loading.tried) - 1) : ~ParsesIn(loading.tried[k])
    /\ loading.pc \in {"loaded", "returned"} =>
           /\ ParsesIn(loading.tried[Len(loading.tried)])
           /\ LoadedDocument =
                  json_load(decode(files[gltf_path], loading.tried[Len(loading.tried)]))
    /\ loading.pc \in {"idle", "try", "except", "raised"} => LoadedDocument = None
    /\ raised = "JSONDecodeError" <=> loading.pc = "raised"
    /\ loading.pc = "raised" =>
           /\ loading.tried = encodings
           /\ \A k \in 1..Len(encodings) : ~ParsesIn(encodings[k])

\* a file that starts with a byte order mark has been loaded at the second
\* attempt, and load_gltf has returned
C22_Witness ==
    /\ loading.pc = "returned"
    /\ loading.tried = <<"utf-8", "utf-8-sig">>
    /\ "bom" \in DOMAIN files[gltf_path]
    /\ LoadedDocument = files[gltf_path].bom.json

\* how often x occurs in the list s
Occurrences(s, x) == Cardinality({k \in 1..Len(s) : s[k] = x})

\* t holds the entries of s, each as often as s does
Rearranged(s, t) ==
    /\ Len(t) = Len(s)
    /\ \A x \in Elems(s) \cup Elems(t) : Occurrences(t, x) = Occurrences(s, x)

\* C23: when the joint-order pass (fix_bone_order) reorders a skin, it
\* changes only the ordering of that skin's joints array: the new joints
\* list is a permutation of the old one (same length, same entries, nothing
\* dropped or duplicated), and the node list with every node's children, the
\* scenes, the skeleton references and the animation channel targets are
\* unchanged.
C23_OnlyJointOrderChanges ==
    Returned("fix_bone_order") =>
        /\ gltf_data.nodes = pre.data.nodes
        /\ gltf_data.scenes = pre.data.scenes
        /\ gltf_data.animations = pre.data.animations
        /\ Len(gltf_data.skins) = Len(pre.data.skins)
        /\ \A k \in 1..Len(gltf_data.skins) :
               /\ gltf_data.skins[k].skeleton = pre.data.skins[k].skeleton
               /\ Rearranged(pre.data.skins[k].joints, gltf_data.skins[k].joints)

\* the roots: the nodes that are no node's child
Roots(nodes) ==
    {i \in Idx(nodes) : \A j \in Idx(nodes) : i \notin ChildSet(nodes, j)}

\* the nodes reachable from a root over child edges, the roots among them
ReachableFromRoots(nodes) ==
    Roots(nodes) \cup UNION {Descendants(nodes, r) : r \in Roots(nodes)}

\* depth-first preorder, with the nodes still to visit kept in a list: the
\* first of them is visited unless it has been, and its children take its
\* place, in children-list order
RECURSIVE PreorderFrom(_, _, _)
PreorderFrom(nodes, pending, out) ==
    IF pending = <<>> THEN out
    ELSE IF Head(pending) \in Elems(out)
    THEN PreorderFrom(nodes, Tail(pending), out)
    ELSE PreorderFrom(nodes, At(nodes, Head(pending)).children \o Tail(pending),
                      Append(out, Head(pending)))

\* the order the claim tells: the reachable nodes in preorder from the roots
\* in ascending order, then the other nodes in ascending order
ExpectedNodeOrder(nodes) ==
    PreorderFrom(nodes, SortedFrom(Roots(nodes), 0), <<>>)
        \o SortedFrom(Idx(nodes) \ ReachableFromRoots(nodes), 0)

\* C24: in the node-order pass (topological_sort_nodes, as fix_node_hierarchy
\* applies it), the nodes reachable from a root (a node that is no node's
\* child) come first, in depth-first preorder with the roots in ascending
\* original index and the children in children-list order, and the nodes not
\* reachable from any root come after all of them, in ascending original
\* index.
C24_UnreachableNodesLast ==
    (last = "fix_node_hierarchy" /\ InRange(pre.data.nodes)) =>
        /\ sorted_indices_of(pre.data.nodes) = ExpectedNodeOrder(pre.data.nodes)
        /\ Elems(PreorderFrom(pre.data.nodes, SortedFrom(Roots(pre.data.nodes), 0), <<>>))
               = ReachableFromRoots(pre.data.nodes)
        /\ (Returned("fix_node_hierarchy") /\ HasLowerChild(pre.data.nodes))
               => NodeIds(gltf_data.nodes) =
                      [k \in 1..Len(pre.data.nodes) |->
                          At(pre.data.nodes, ExpectedNodeOrder(pre.data.nodes)[k]).id]

\* the pass has reordered a list in which a root reaches another node, and
\* has put after them a node that no root reaches
C24_Witness ==
    /\ Returned("fix_node_hierarchy")
    /\ InRange(pre.data.nodes)
    /\ NodeIds(gltf_data.nodes) # NodeIds(pre.data.nodes)
    /\ Idx(pre.data.nodes) \ ReachableFromRoots(pre.data.nodes) # {}
    /\ Cardinality(ReachableFromRoots(pre.data.nodes)) >= 2

\* the count samples of the timing accessor, each where the stride puts it,
\* are inside the buffer and are finite numbers
SamplesValid(json, data, accessor) ==
    /\ SamplesInside(json, data, accessor)
    /\ \A k \in 0..(accessor.count - 1) :
           LET v == unpack_float(data, ElementPos(json, accessor, k, 0))
           IN  ~IsNaN(v) /\ ~IsInf(v)

\* the fields of the accessors that no repair has to write
Layout(accessors) ==
    [k \in 1..Len(accessors) |->
        [bufferView |-> accessors[k].bufferView,
         byteOffset |-> accessors[k].byteOffset,
         componentType |-> accessors[k].componentType,
         count |-> accessors[k].count,
         type |-> accessors[k].type]]

\* C25: buffer bytes change only when a timing accessor's raw samples are
\* themselves corrupted: fix_extreme_coordinates never changes the buffer,
\* fix_animation_timing leaves it byte-identical when every timing accessor
\* with flagged bounds has valid raw samples, and both write back only min
\* and max.
C25_BufferChangesOnlyForCorruptedSamples ==
    /\ last = "fix_extreme_coordinates" => bin_data = pre.bin
    /\ last \in {"fix_animation_timing", "fix_extreme_coordinates"} =>
           Layout(gltf_json.accessors) = Layout(pre.json.accessors)
    /\ (/\ last = "fix_animation_timing"
        /\ \A a \in TimingAccessors(pre.json) :
               FlaggedTiming(At(pre.json.accessors, a))
                   => SamplesValid(pre.json, pre.bin, At(pre.json.accessors, a)))
           => bin_data = pre.bin

\* the samples of the timing accessor that the buffer holds: of its count
\* positions, a stride apart, those that end inside the buffer
StoredSamples(json, data, accessor) ==
    {unpack_float(data, ElementPos(json, accessor, k, 0)) :
        k \in {i \in 0..(accessor.count - 1) :
                  ElementPos(json, accessor, i, 0) + 4 <= Len(data)}}

\* the 32-bit float that the buffer would hold of a bound
Float32Of(v) == <<float32_key(v), 0>>

\* min and max of the accessor are, as 32-bit floats, the least and the
\* largest of the samples the buffer holds of it, none of them a NaN
BoundsAgree(json, data, accessor) ==
    LET S == StoredSamples(json, data, accessor)
    IN  /\ \A v \in S : ~IsNaN(v)
        /\ Len(accessor.min) = 1
        /\ Len(accessor.max) = 1
        /\ Float32Of(accessor.min[1]) \in S
        /\ Float32Of(accessor.max[1]) \in S
        /\ \A v \in S : ~NumLt(v, Float32Of(accessor.min[1]))
        /\ \A v \in S : ~NumLt(Float32Of(accessor.max[1]), v)

\* the timing accessors of floats whose min or max the last method has
\* changed
UpdatedTimingAccessors ==
    {a \in ViewedTimingAccessors(pre.json) :
        /\ At(pre.json.accessors, a).componentType = 5126
        /\ At(pre.json.accessors, a).type = "SCALAR"
        /\ At(gltf_json.accessors, a) # At(pre.json.accessors, a)}

\* C26: after timing repair (fix_animation_timing, fix_animation_accessors)
\* has updated an accessor's min/max, min and max equal the minimum and the
\* maximum of the samples stored in the buffer for that accessor at the end
\* of the repair, also when the write of regenerated samples has failed or
\* when only some of the original samples were invalid.
C26_BoundsAgreeWithBuffer ==
    last \in {"fix_animation_timing", "fix_animation_accessors"} =>
        \A a \in UpdatedTimingAccessors :
            BoundsAgree(gltf_json, bin_data, At(gltf_json.accessors, a))

\* C27: if loading the document fails, the session writes no output: after
\* DaybreakGLTFFixer.load has returned False, main of fix_daybreak_gltf.py
\* creates or overwrites no file, neither the output JSON file nor a buffer
\* file.
C27_FailedLoadWritesNothing ==
    (/\ program = "fix_daybreak_gltf"
     /\ last = "save"
     /\ prev = "load_failed") => files = pre.files

\* what GLTFAnimationFixer.fix_animation_accessors makes of the document and
\* the buffer that the last method has started from
OldTimingResult == fix_animation_accessors_of(pre.json, pre.bin, FALSE, 0)

\* C28: the two timing-repair implementations are equivalent: on the same
\* document and buffer, when neither raises,
\* DaybreakGLTFFixer.fix_animation_timing and
\* GLTFAnimationFixer.fix_animation_accessors leave the same min/max on
\* every timing accessor and the same buffer bytes.
C28_TimingRepairsEquivalent ==
    (/\ last = "fix_animation_timing"
     /\ raised = "none"
     /\ OldTimingResult.raised = "none") =>
        /\ bin_data = OldTimingResult.bin_data
        /\ \A a \in TimingAccessors(pre.json) :
               /\ At(gltf_json.accessors, a).min = At(OldTimingResult.accessors, a).min
               /\ At(gltf_json.accessors, a).max = At(OldTimingResult.accessors, a).max

\* a second run of the timing repair on what the first has left
TimingAgain == fix_animation_timing_of(gltf_json, bin_data, fixes_applied)

OldTimingAgain ==
    fix_animation_accessors_of(gltf_json, bin_data, bin_data_modified, fixed_count)

\* the timing accessors whose min or max the last method has changed
RepairedTimingAccessors ==
    {a \in TimingAccessors(pre.json) :
        At(gltf_json.accessors, a) # At(pre.json.accessors, a)}

\* C29: timing repair is idempotent: when fix_animation_timing (or
\* fix_animation_accessors) has returned, a second run on its result applies
\* no fix and leaves every accessor's min/max and every buffer byte
\* unchanged, and no accessor it has repaired satisfies the corruption
\* predicate any more (also for count = 1, where min = max = 0).
C29_TimingRepairIdempotent ==
    /\ (last = "fix_animation_timing" /\ raised = "none") =>
           /\ TimingAgain.raised = "none"
           /\ TimingAgain.accessors = gltf_json.accessors
           /\ TimingAgain.bin_data = bin_data
           /\ TimingAgain.fixes_applied = fixes_applied
           /\ \A a \in RepairedTimingAccessors :
                  ~is_corrupted(first_or_zero(At(gltf_json.accessors, a).min),
                                first_or_zero(At(gltf_json.accessors, a).max))
    /\ (last = "fix_animation_accessors" /\ raised = "none") =>
           /\ OldTimingAgain.raised = "none"
           /\ OldTimingAgain.accessors = gltf_json.accessors
           /\ OldTimingAgain.bin_data = bin_data
           /\ OldTimingAgain.fixed_count = fixed_count
           /\ OldTimingAgain.bin_data_modified = bin_data_modified
           /\ \A a \in RepairedTimingAccessors :
                  ~FlaggedTimingOld(At(gltf_json.accessors, a))

\* fix_animation_timing has regenerated the one sample of an accessor and
\* has left it with min = max = 0
C29_Witness ==
    /\ last = "fix_animation_timing"
    /\ raised = "none"
    /\ bin_data # pre.bin
    /\ \E a \in RepairedTimingAccessors :
           /\ At(gltf_json.accessors, a).count = 1
           /\ At(gltf_json.accessors, a).min = <<IntNum(0)>>
           /\ At(gltf_json.accessors, a).max = <<IntNum(0)>>

\* C30: bin_data_modified tracks buffer mutation: whenever
\* fix_animation_accessors has changed at least one byte of the buffer
\* through write_accessor_data (a write that stops early with a False result
\* after some samples included), bin_data_modified is True, so that
\* save_gltf writes the buffer out.
C30_ModifiedFlagTracksBuffer ==
    (last = "fix_animation_accessors" /\ bin_data # pre.bin) => bin_data_modified

====
